---------------------------- MODULE Spec2Model ----------------------------
(***************************************************************************)
(* State-machine model of the pulse-sequence sampling engine of            *)
(* logic/sequence_generator_logic.py (class SequenceGeneratorLogic).       *)
(*                                                                         *)
(* Conventions of the model                                                *)
(*  - A string of the program is a sequence of tokens (<<"e", "_ch">> is   *)
(*    the string "e_ch"); '+' on strings is \o and str.startswith is       *)
(*    StartsWith.  The tokens are chosen so that no token is a             *)
(*    concatenation of others: two names are equal strings exactly when    *)
(*    they are equal token sequences.                                      *)
(*  - init_length_s, increment_s and sample_rate are floats in the         *)
(*    program.  The model keeps the product element_length_s * sample_rate *)
(*    in half bins: lengths are integers, and a length L at sample rate R  *)
(*    lasts (L * R) / 2 bins, so the rounding of np.rint is exercised.     *)
(*  - One sample of a channel is the pair of the element that produced it  *)
(*    and the time bin it was evaluated at (the argument of the element's  *)
(*    pulse function), together with the element's digital level.          *)
(***************************************************************************)
EXTENDS Integers, Sequences, FiniteSets, TLC

VARIABLES
    state,                        \* module state of the logic: "idle" or "locked"
    sample_rate,                  \* self.sample_rate
    analog_channels,              \* self.analog_channels
    digital_channels,             \* self.digital_channels
    saved_pulse_block_ensembles,  \* self.saved_pulse_block_ensembles: name -> ensemble
    saved_pulse_sequences,        \* self.saved_pulse_sequences: name -> sequence
    waveform_dir,                 \* files in self.waveform_dir
    sequence_dir,                 \* files in self.sequence_dir
    ens,                          \* per caller: frame of sample_pulse_block_ensemble
    seq,                          \* per caller: frame of sample_pulse_sequence
    ret,                          \* per caller: outcome of the caller's last call
    writer_log,                   \* per caller: writer calls made by its current call
    signal_log,                   \* per caller: signals emitted by its current call
    removed,                      \* per caller: files deleted by its current call
    invoked,                      \* the step taken last: [by |-> caller, op |-> method]
    saved_pulse_blocks,           \* self.saved_pulse_blocks: name -> block
    current,                      \* self.current_block / _ensemble / _sequence, by kind
    disk,                         \* by kind: the dict files in the directory of the kind
    saving,                       \* frame of the save, delete or load call in progress
    platform,                     \* os.name of the host: "posix" or "nt"
    load_log,                     \* the picks of the loader among several candidate files
    ops,                          \* number of save and delete calls still to be made
    gen,                          \* frame of the generate_predefined_sequence call
    activation_config,            \* the list of the active channel names
    laser_channel,                \* the channel the laser is switched with, or None
    counter,                      \* the CounterLogic module and its counting device
    optimizer                     \* the OptimizerLogic module and its scanning device

vars == <<state, sample_rate, analog_channels, digital_channels,
          saved_pulse_block_ensembles, saved_pulse_sequences,
          waveform_dir, sequence_dir,
          ens, seq, ret, writer_log, signal_log, removed, invoked,
          saved_pulse_blocks, current, disk, saving, platform, load_log, ops, gen,
          activation_config, laser_channel, counter, optimizer>>

\* the part of the state the sampling calls leave alone, but for the sequence
\* file that sample_pulse_sequence writes through save_sequence
persistence == <<saved_pulse_blocks, current, disk, saving, platform, load_log, ops, gen,
                 activation_config, laser_channel, counter, optimizer>>

-----------------------------------------------------------------------------
(* Bounds of the model *)

\* longest block_list of an ensemble under test
MaxBlocks == 2
\* largest repetition count of a block_list entry
MaxReps == 1
\* largest offset_bin a caller passes
MaxOffset == 1

\* longest ensemble_param_list of a sequence under test
MaxSteps == 3

\* number of save and delete calls on the asset store in one behaviour
MaxOps == 2

\* number of save and delete calls of a caller that passes its objects again
MaxCalls == 4

-----------------------------------------------------------------------------
(* Strings *)

StartsWith(f, p) == Len(p) <= Len(f) /\ SubSeq(f, 1, Len(p)) = p

\* str(i).zfill(3) preceded by '_', as one token
Zfill3Tag(i) == <<"_000", "_001", "_002", "_003", "_004", "_005">>[i + 1]

\* folds a sequence of numbers
RECURSIVE SumSeq(_)
SumSeq(s) == IF s = <<>> THEN 0 ELSE Head(s) + SumSeq(Tail(s))

\* concatenates a sequence of sequences
RECURSIVE Flatten(_)
Flatten(ss) == IF ss = <<>> THEN <<>> ELSE Head(ss) \o Flatten(Tail(ss))

\* the sequences over S of length lo..hi
SeqsOf(S, lo, hi) == UNION {[1..n -> S] : n \in lo..hi}

-----------------------------------------------------------------------------
(* Rounding *)

\* int(np.rint(h / 2)) for a half-bin count h >= 0: round half to even
RIntHalf(h) ==
    LET q == h \div 2
    IN  IF h % 2 = 0 THEN q
        ELSE IF q % 2 = 0 THEN q ELSE q + 1

\* element_length_bins of one element in repetition rep_no at sample rate rate
ElementLengthBins(block_element, rep_no, rate) ==
    LET element_length_s == block_element.init_length_s
                            + (rep_no * block_element.increment_s)
    IN  RIntHalf(element_length_s * rate)

-----------------------------------------------------------------------------
(* Data model: the objects of logic/pulse_objects.py as the sampler reads them *)

PulseBlockElement(init, inc, dig, fn) ==
    [init_length_s |-> init, increment_s |-> inc,
     digital_high |-> dig, pulse_function |-> fn]

PulseBlock(name, elements) == [name |-> name, element_list |-> elements]

PulseBlockEnsemble(name, block_list, ana, dig, rotating) ==
    [name |-> name, block_list |-> block_list,
     analog_channels |-> ana, digital_channels |-> dig,
     rotating_frame |-> rotating]

\* ensemble_param_list holds (ensemble object, parameters) pairs; the sampler
\* reads only the name of the ensemble object and hands the parameters on
PulseSequence(name, ensemble_param_list, rotating) ==
    [name |-> name, ensemble_param_list |-> ensemble_param_list,
     rotating_frame |-> rotating, sampled_ensembles |-> <<>>]

\* the distinct ensemble names of a sequence, in order of first occurrence
RECURSIVE DistinctNames(_, _)
DistinctNames(param_list, seen) ==
    IF param_list = <<>> THEN <<>>
    ELSE LET n == Head(param_list).ensemble
         IN  IF n \in seen THEN DistinctNames(Tail(param_list), seen)
             ELSE <<n>> \o DistinctNames(Tail(param_list), seen \cup {n})

different_ensembles_dict(sequence_obj) ==
    DistinctNames(sequence_obj.ensemble_param_list, {})

\* the blocks the ensembles under test are built from: an empty block, a block
\* of one element that grows with the repetition, a block of two elements
BlockLibrary ==
    { PulseBlock(<<"b0">>, <<>>),
      PulseBlock(<<"b1">>, << PulseBlockElement(1, 2, TRUE, "DC") >>),
      PulseBlock(<<"b2">>, << PulseBlockElement(2, 1, FALSE, "Sin"),
                              PulseBlockElement(5, 0, TRUE, "Idle") >>) }

BlockLists ==
    SeqsOf([block : BlockLibrary, reps : 0..MaxReps], 0, MaxBlocks)

-----------------------------------------------------------------------------
(* Bin/length analysis *)

\* mutant of BlockLengthBins: the analysis truncates where the sampler rounds
BlockLengthBinsTruncated(entry, rate) ==
    LET n == Len(entry.block.element_list)
    IN  [state_index \in 1..((entry.reps + 1) * n) |->
            LET block_element == entry.block.element_list[((state_index - 1) % n) + 1]
                rep_no == (state_index - 1) \div n
            IN  ((block_element.init_length_s + (rep_no * block_element.increment_s))
                 * rate) \div 2]

\* tmp_length_bins of one block_list entry: repetitions outermost, elements inside
BlockLengthBins(entry, rate) ==
    LET n == Len(entry.block.element_list)
    IN  [state_index \in 1..((entry.reps + 1) * n) |->
            ElementLengthBins(entry.block.element_list[((state_index - 1) % n) + 1],
                              (state_index - 1) \div n, rate)]

RECURSIVE StateLengthBins(_, _)
StateLengthBins(block_list, rate) ==
    IF block_list = <<>> THEN <<>>
    ELSE BlockLengthBins(Head(block_list), rate)
         \o StateLengthBins(Tail(block_list), rate)

RECURSIVE CountRange(_)
CountRange(block_list) ==
    IF block_list = <<>> THEN 0
    ELSE (Head(block_list).reps + 1) * Len(Head(block_list).block.element_list)
         + CountRange(Tail(block_list))

\* _analyze_block_ensemble
AnalyzeBlockEnsemble(ensemble, rate) ==
    LET state_length_bins_arr == StateLengthBins(ensemble.block_list, rate)
    IN  [number_of_samples |-> SumSeq(state_length_bins_arr),
         number_of_elements |-> CountRange(ensemble.block_list),
         number_of_states |-> Len(state_length_bins_arr),
         state_length_bins_arr |-> state_length_bins_arr]

-----------------------------------------------------------------------------
(* The sampler's traversal *)

\* mutant of RepsOf: the loop over the elements is outside the loop over the
\* repetitions
RECURSIVE RepsOfElementMajor(_, _)
RepsOfElementMajor(entry, elem_ind) ==
    IF elem_ind >= Len(entry.block.element_list) THEN <<>>
    ELSE [r \in 1..(entry.reps + 1) |->
            [block_element |-> entry.block.element_list[elem_ind + 1], rep_no |-> r - 1]]
         \o RepsOfElementMajor(entry, elem_ind + 1)

\* the (block_element, rep_no) pairs of one block_list entry in the order of
\* the two inner loops of sample_pulse_block_ensemble
RECURSIVE RepsOf(_, _)
RepsOf(entry, rep_no) ==
    IF rep_no > entry.reps THEN <<>>
    ELSE [i \in 1..Len(entry.block.element_list) |->
            [block_element |-> entry.block.element_list[i], rep_no |-> rep_no]]
         \o RepsOf(entry, rep_no + 1)

\* the iterations of the three nested loops, in order
RECURSIVE Traversal(_)
Traversal(block_list) ==
    IF block_list = <<>> THEN <<>>
    ELSE RepsOf(Head(block_list), 0) \o Traversal(Tail(block_list))

\* the samples of one element: sample i (0-based) is evaluated at time bin
\* offset_bin + i and carries the element's digital level
ElementSamples(block_element, element_length_bins, offset_bin) ==
    [i \in 1..element_length_bins |->
        [fn |-> block_element.pulse_function,
         t |-> offset_bin + (i - 1),
         dig |-> block_element.digital_high]]

-----------------------------------------------------------------------------
(* Callers, files and the writer *)

\* the threads that call into the generator
Callers == {"c1", "c2"}

\* the generator's channel configuration set in __init__
InitAnalogChannels == 2
InitDigitalChannels == 4

\* the activation_config and the laser_channel set in __init__
InitActivationConfig == <<"a_ch1", "d_ch1", "d_ch2", "a_ch2", "d_ch3", "d_ch4">>

NoFrame == [pc |-> "none"]

\* no CounterLogic module is loaded
NoCounter == [state |-> "deactivated"]

\* no OptimizerLogic module is loaded
NoOptimizer == [state |-> "deactivated"]
NoResult == [op |-> "none", status |-> "none", error |-> "none"]

\* a local that no assignment has bound yet (created_files before the first write)
Unbound == << <<"<unbound>">> >>

\* an entry of np.empty that no slice assignment has filled
Uninit == [fn |-> "<uninit>", t |-> 0 - 1, dig |-> FALSE]

Active(frame) == frame.pc = "loop"

\* the files on the host that belong to a sampled ensemble: the filter of
\* f.startswith(ensemble_name + '_ch') over os.listdir(self.waveform_dir)
OldWaveformFiles(ensemble_name) ==
    {f \in waveform_dir : StartsWith(f, ensemble_name \o <<"_ch">>)}

\* the filter f.startswith(sequence_name + '.seq') over os.listdir(self.sequence_dir)
OldSequenceFiles(sequence_name) ==
    {f \in sequence_dir : StartsWith(f, sequence_name \o <<".seq">>)}

\* the waveform writer self._write_to_file[self.waveform_format]: the list of
\* files it creates or appends to for a destination name
WaveformFiles(name) == << name \o <<"_ch", "1.wfmx">> >>

\* the sequence writer self._write_to_file[self.sequence_format]
SequenceFiles(name) == << name \o <<".seq", "x">> >>

Range(s) == {s[i] : i \in DOMAIN s}

WaveformCall(name, samples, total, first, last) ==
    [method |-> "waveform", name |-> name, samples |-> samples,
     total_number_of_samples |-> total,
     is_first_chunk |-> first, is_last_chunk |-> last]

SequenceCall(name, sequence_param_dict_list) ==
    [method |-> "sequence", name |-> name,
     sequence_param_dict_list |-> sequence_param_dict_list]

-----------------------------------------------------------------------------
(* sample_pulse_block_ensemble *)

\* lines 714-760: the call up to the loops.  The module is locked when it was
\* idle, old files of the name are deleted, and the call either returns at
\* the channel check or enters the loops.
EnterEnsemble(ensemble_name, write_to_file, chunkwise, offset_bin, name_tag) ==
    LET sequence_sampling_in_progress == state # "idle"
        filename_list == IF write_to_file THEN OldWaveformFiles(ensemble_name) ELSE {}
        ensemble == saved_pulse_block_ensembles[ensemble_name]
        mismatch == \/ digital_channels # ensemble.digital_channels
                    \/ analog_channels # ensemble.analog_channels
        a == AnalyzeBlockEnsemble(ensemble, sample_rate)
        frame ==
            [pc |-> IF mismatch THEN "returned" ELSE "loop",
             ensemble_name |-> ensemble_name,
             write_to_file |-> write_to_file,
             chunkwise |-> chunkwise,
             offset_bin |-> offset_bin,
             name_tag |-> name_tag,
             sequence_sampling_in_progress |-> sequence_sampling_in_progress,
             ensemble |-> ensemble,
             number_of_samples |-> IF mismatch THEN 0 ELSE a.number_of_samples,
             number_of_elements |-> IF mismatch THEN 0 ELSE a.number_of_elements,
             is_first_chunk |-> TRUE,
             is_last_chunk |-> FALSE,
             element_count |-> 0,
             samples |-> IF mismatch \/ (chunkwise /\ write_to_file) THEN <<>>
                         ELSE [i \in 1..a.number_of_samples |-> Uninit],
             entry_ind |-> 0,
             created_files |-> Unbound,
             k |-> 0,
             offset_in |-> offset_bin,
             holder_active |-> \E u \in Callers : Active(ens[u]) \/ Active(seq[u]),
             time_log |-> <<>>]
    IN  [state |-> IF sequence_sampling_in_progress THEN state ELSE "locked",
         removed |-> filename_list,
         frame |-> frame,
         returned |-> mismatch,
         result |-> [status |-> "returned", error |-> "ChannelMismatch",
                     analog_samples |-> <<>>, digital_samples |-> <<>>,
                     created_files |-> << <<>> >>, offset_bin |-> 0]]

\* mutant of LastChunkFlag: the counter is compared with the sample total
LastChunkFlagOnSamples(frame, element_count) ==
    IF element_count = frame.number_of_samples THEN TRUE ELSE frame.is_last_chunk

\* lines 782-784: is_last_chunk after the element counter was incremented
LastChunkFlag(frame, element_count) ==
    IF element_count = frame.number_of_elements THEN TRUE ELSE frame.is_last_chunk

\* lines 816-817: the running offset after an element of element_length_bins bins
NextOffset(frame, element_length_bins) ==
    IF frame.ensemble.rotating_frame
    THEN frame.offset_bin + element_length_bins
    ELSE frame.offset_bin

\* lines 767-817: one iteration of the innermost loop
SampleStep(frame) ==
    LET it == Traversal(frame.ensemble.block_list)[frame.k + 1]
        element_length_bins == ElementLengthBins(it.block_element, it.rep_no, sample_rate)
        chunk == ElementSamples(it.block_element, element_length_bins, frame.offset_bin)
        chunked == frame.chunkwise /\ frame.write_to_file
        element_count == frame.element_count + 1
        is_last_chunk == LastChunkFlag(frame, element_count)
        name == frame.ensemble.name \o frame.name_tag
        next_offset == NextOffset(frame, element_length_bins)
        logged == Append(frame.time_log,
                         [t0 |-> frame.offset_bin, len |-> element_length_bins])
    IN  IF chunked
        THEN [frame |-> [frame EXCEPT !.element_count = element_count,
                                      !.is_last_chunk = is_last_chunk,
                                      !.is_first_chunk = FALSE,
                                      !.created_files = WaveformFiles(name),
                                      !.offset_bin = next_offset,
                                      !.k = @ + 1,
                                      !.time_log = logged],
              writes |-> << WaveformCall(name, chunk, frame.number_of_samples,
                                         frame.is_first_chunk, is_last_chunk) >>]
        ELSE [frame |-> [frame EXCEPT
                            !.samples = [i \in DOMAIN @ |->
                                IF /\ i > frame.entry_ind
                                   /\ i <= frame.entry_ind + element_length_bins
                                THEN chunk[i - frame.entry_ind] ELSE @[i]],
                            !.entry_ind = @ + element_length_bins,
                            !.offset_bin = next_offset,
                            !.k = @ + 1,
                            !.time_log = logged],
              writes |-> <<>>]

\* lines 825, 834, 852: the call unlocks the module and announces completion
\* only when it locked the module itself
Unlocks(frame) == ~frame.sequence_sampling_in_progress

\* mutant of MonolithicWrites: the single call does not finalize the file
MonolithicWritesUnfinalized(frame, name) ==
    IF frame.write_to_file /\ ~frame.chunkwise
    THEN << WaveformCall(name, frame.samples, frame.number_of_samples, TRUE, FALSE) >>
    ELSE <<>>

\* lines 838-847: the single writer call of a sampling that is not chunkwise
MonolithicWrites(frame, name) ==
    IF frame.write_to_file /\ ~frame.chunkwise
    THEN << WaveformCall(name, frame.samples, frame.number_of_samples, TRUE, TRUE) >>
    ELSE <<>>

\* lines 819-855: the call after the loops.  unlocks says whether the module is
\* unlocked and sigSampleEnsembleComplete emitted; the return statement raises
\* UnboundLocalError when created_files was never assigned.
LeaveEnsemble(frame) ==
    LET name == frame.ensemble.name \o frame.name_tag
        monolithic_write == frame.write_to_file /\ ~frame.chunkwise
        writes == MonolithicWrites(frame, name)
        created_files == IF monolithic_write THEN WaveformFiles(name)
                         ELSE frame.created_files
        raised == created_files = Unbound
    IN  [frame |-> [frame EXCEPT !.pc = "returned", !.created_files = created_files],
         writes |-> writes,
         unlocks |-> Unlocks(frame),
         result |->
            IF raised
            THEN [status |-> "raised", error |-> "UnboundLocalError"]
            ELSE [status |-> "returned", error |-> "none",
                  analog_samples |-> IF frame.write_to_file THEN <<>> ELSE frame.samples,
                  digital_samples |-> IF frame.write_to_file THEN <<>> ELSE frame.samples,
                  created_files |-> created_files,
                  offset_bin |-> frame.offset_bin]]

-----------------------------------------------------------------------------
(* sample_pulse_sequence *)

\* d[key] = value on a dict kept as a function
DictSet(d, key, value) ==
    [x \in (DOMAIN d) \cup {key} |-> IF x = key THEN value ELSE d[x]]

\* the number of ensemble-sampling calls the sequence call makes: one per entry
\* of ensemble_param_list (rotating frame) or per distinct ensemble name
InnerCalls(sframe) ==
    IF sframe.sequence_obj.rotating_frame
    THEN Len(sframe.sequence_obj.ensemble_param_list)
    ELSE Len(different_ensembles_dict(sframe.sequence_obj))

\* the arguments of the next ensemble-sampling call (lines 915-926, 948-955)
InnerArgs(sframe) ==
    IF sframe.sequence_obj.rotating_frame
    THEN [ensemble_name |->
              sframe.sequence_obj.ensemble_param_list[sframe.ensemble_index + 1].ensemble,
          offset_bin |-> sframe.offset_bin,
          name_tag |-> << Zfill3Tag(sframe.ensemble_index) >>]
    ELSE [ensemble_name |->
              different_ensembles_dict(sframe.sequence_obj)[sframe.ensemble_index + 1],
          offset_bin |-> 0,
          name_tag |-> <<>>]

\* lines 928-944 and 957-959: the loop body after the ensemble-sampling call
\* returned created_files and offset_bin_return
AfterInner(sframe, args, created_files, offset_bin_return) ==
    LET seq_param ==
            sframe.sequence_obj.ensemble_param_list[sframe.ensemble_index + 1].param
        temp_dict == [name |-> created_files, param |-> seq_param]
        call == [ensemble_name |-> args.ensemble_name, name_tag |-> args.name_tag,
                 offset_bin |-> args.offset_bin, offset_bin_return |-> offset_bin_return]
    IN  IF sframe.sequence_obj.rotating_frame
        THEN [sframe EXCEPT
                !.sampled_ensembles =
                    DictSet(@, args.ensemble_name \o args.name_tag, created_files),
                !.sequence_param_dict_list = Append(@, temp_dict),
                !.offset_bin = offset_bin_return,
                !.ensemble_index = @ + 1,
                !.inner = Append(@, call)]
        ELSE [sframe EXCEPT
                !.sampled_ensembles = DictSet(@, args.ensemble_name, created_files),
                !.offset_bin = offset_bin_return,
                !.ensemble_index = @ + 1,
                !.inner = Append(@, call)]

\* lines 963-970: the step descriptors of a sequence without rotating frame
SharedParamDicts(sframe) ==
    [i \in DOMAIN sframe.sequence_obj.ensemble_param_list |->
        [name |-> sframe.sampled_ensembles[
                      sframe.sequence_obj.ensemble_param_list[i].ensemble],
         param |-> sframe.sequence_obj.ensemble_param_list[i].param]]

\* an exception of the ensemble-sampling call leaves sample_pulse_sequence
\* through every frame: nothing after the call runs
SequenceRaised(sframe, args) ==
    [sframe EXCEPT !.pc = "returned",
                   !.inner = Append(@, [ensemble_name |-> args.ensemble_name,
                                        name_tag |-> args.name_tag,
                                        offset_bin |-> args.offset_bin,
                                        offset_bin_return |-> 0 - 1])]

-----------------------------------------------------------------------------
(* The asset store: the three dicts and their files *)

\* the kinds of asset; each has a dict in memory and a directory of its own
Kinds == {"block", "ensemble", "sequence"}

\* Python's None
None == [is_none |-> TRUE]
Some(v) == [is_none |-> FALSE, value |-> v]

\* the dict of a kind in memory
MapOf(kind) ==
    CASE kind = "block" -> saved_pulse_blocks
      [] kind = "ensemble" -> saved_pulse_block_ensembles
      [] kind = "sequence" -> saved_pulse_sequences

\* a file that does not exist
NoFile == [exists |-> FALSE, complete |-> FALSE, blob |-> {}]

\* pickle.dump of a dict: the (key, object) pairs it holds
Serialize(map) == {<<name, map[name]>> : name \in DOMAIN map}

\* pickle.load of the bytes of a completed dump
Deserialize(blob) ==
    [name \in {p[1] : p \in blob} |-> (CHOOSE p \in blob : p[1] = name)[2]]

\* the temporary file after open(..., 'wb'): created or truncated, and what a
\* dump that did not complete leaves behind
OpenedForWriting == [exists |-> TRUE, complete |-> FALSE, blob |-> {}]

\* the temporary file after pickle.dump returned and the file was closed
Dumped(map) == [exists |-> TRUE, complete |-> TRUE, blob |-> Serialize(map)]

\* os.rename raises on a Windows host when the destination exists
RenameRaises(dir, plat) == plat = "nt" /\ dir.canon.exists

\* os.rename of the temporary file to the dict file
Renamed(dir) == [canon |-> dir.tmp, tmp |-> NoFile]

\* os.remove of the dict file
Removed(dir) == [dir EXCEPT !.canon = NoFile]

\* mutant of Opened: the dict file itself is opened for writing
OpenedInPlace(dir) == [dir EXCEPT !.canon = OpenedForWriting]

\* open(..., 'wb') of the temporary file: created or truncated
Opened(dir) == [dir EXCEPT !.tmp = OpenedForWriting]

\* mutant of SaveToFile: the temporary file is written and never renamed
SaveToFileNoRename(dir, map, dump_ok, plat) ==
    IF dump_ok THEN [dir EXCEPT !.tmp = Dumped(map)]
    ELSE [dir EXCEPT !.tmp = OpenedForWriting]

\* _save_blocks_to_file / _save_ensembles_to_file / _save_sequences_to_file
\* run from start to end on the directory dir; dump_ok is false when writing
\* the temporary file raises
SaveToFile(dir, map, dump_ok, plat) ==
    LET opened == Opened(dir)
        dumped == [opened EXCEPT !.tmp = Dumped(map)]
    IN  IF ~dump_ok THEN opened
        ELSE IF RenameRaises(dumped, plat) THEN Renamed(Removed(dumped))
        ELSE Renamed(dumped)

\* the names in the directory that the filter '<kind>_dict.<ext>' in f keeps:
\* the dict file and the temporary file both contain the pattern
CandidateFiles(dir) == {f \in {"canon", "tmp"} : dir[f].exists}

\* the orders in which os.listdir may return a set of names
Listings(files) ==
    {listing \in SeqsOf(files, Cardinality(files), Cardinality(files)) :
        Range(listing) = files}

\* _get_blocks_from_file / _get_ensembles_from_file / _get_sequences_from_file
\* on the directory dir, the filtered listing being listing
GetFromFile(dir, listing) ==
    IF Len(listing) = 0
    THEN [map |-> <<>>, picked |-> "none", reported |-> FALSE, failed |-> FALSE]
    ELSE LET picked == listing[Len(listing)]
         IN  [map |-> IF dir[picked].complete THEN Deserialize(dir[picked].blob)
                      ELSE <<>>,
              picked |-> picked,
              reported |-> Len(listing) > 1,
              failed |-> ~dir[picked].complete]

\* mutant of Stored: an entry that exists is kept
StoredIfAbsent(map, name, obj) ==
    IF name \in DOMAIN map THEN map
    ELSE DictSet(map, name, [obj EXCEPT !.name = name])

\* a and b are one Python object: a caller that passes the same object again
\* marks it with an id; objects without an id are created for the call
SameObject(a, b) ==
    /\ "id" \in DOMAIN a
    /\ "id" \in DOMAIN b
    /\ a.id = b.id

\* save_block / save_ensemble / save_sequence up to the call that writes the
\* file: the object takes the name and is stored under it; the dict holds
\* references, so every entry that holds the object sees the new name
Stored(map, name, obj) ==
    LET renamed == [obj EXCEPT !.name = name]
    IN  DictSet([x \in DOMAIN map |->
                    IF SameObject(map[x], obj) THEN renamed ELSE map[x]],
                name, renamed)

\* del(d[name])
DictDel(map, name) == [x \in (DOMAIN map) \ {name} |-> map[x]]

-----------------------------------------------------------------------------
(* Actions *)

\* the caller is not inside a call of the generator
Outside(t) == ~Active(ens[t]) /\ ~Active(seq[t])

\* the files the writer calls of writes leave in the waveform directory
WrittenFiles(writes) == UNION {Range(WaveformFiles(writes[i].name)) : i \in DOMAIN writes}

settings == <<sample_rate, analog_channels, digital_channels>>

\* a caller calls sample_pulse_block_ensemble (lines 714-760)
SamplePulseBlockEnsemble(t, ensemble_name, write_to_file, chunkwise, offset_bin) ==
    /\ Outside(t)
    /\ ensemble_name \in DOMAIN saved_pulse_block_ensembles
    /\ LET e == EnterEnsemble(ensemble_name, write_to_file, chunkwise, offset_bin, <<>>)
       IN  /\ state' = e.state
           /\ waveform_dir' = waveform_dir \ e.removed
           /\ removed' = [removed EXCEPT ![t] = e.removed]
           /\ ens' = [ens EXCEPT ![t] = e.frame]
           /\ ret' = [ret EXCEPT ![t] =
                        IF e.returned
                        THEN [op |-> "sample_pulse_block_ensemble"] @@ e.result
                        ELSE NoResult]
    /\ seq' = [seq EXCEPT ![t] = NoFrame]
    /\ writer_log' = [writer_log EXCEPT ![t] = <<>>]
    /\ signal_log' = [signal_log EXCEPT ![t] = <<>>]
    /\ invoked' = [by |-> t, op |-> "sample_pulse_block_ensemble"]
    /\ UNCHANGED persistence
    /\ UNCHANGED <<settings, saved_pulse_block_ensembles, saved_pulse_sequences,
                   sequence_dir>>

\* one iteration of the loops of sample_pulse_block_ensemble (lines 767-817)
SampleElement(t) ==
    /\ Active(ens[t])
    /\ ens[t].k < Len(Traversal(ens[t].ensemble.block_list))
    /\ LET r == SampleStep(ens[t])
       IN  /\ ens' = [ens EXCEPT ![t] = r.frame]
           /\ writer_log' = [writer_log EXCEPT ![t] = @ \o r.writes]
           /\ waveform_dir' = waveform_dir \cup WrittenFiles(r.writes)
    /\ invoked' = [by |-> t, op |-> "sample_element"]
    /\ UNCHANGED persistence
    /\ UNCHANGED <<state, settings, saved_pulse_block_ensembles, saved_pulse_sequences,
                   sequence_dir, seq, ret, signal_log, removed>>

\* sample_pulse_block_ensemble leaves its loops and returns (lines 819-855); a
\* call made by sample_pulse_sequence returns into its loop body (lines 928-944,
\* 957-959)
ReturnEnsemble(t) ==
    /\ Active(ens[t])
    /\ ens[t].k = Len(Traversal(ens[t].ensemble.block_list))
    /\ LET r == LeaveEnsemble(ens[t])
           inner == Active(seq[t])
       IN  /\ state' = IF r.unlocks THEN "idle" ELSE state
           /\ signal_log' = [signal_log EXCEPT ![t] =
                 IF r.unlocks
                 THEN Append(@, <<"sigSampleEnsembleComplete", ens[t].ensemble_name>>)
                 ELSE @]
           /\ writer_log' = [writer_log EXCEPT ![t] = @ \o r.writes]
           /\ waveform_dir' = waveform_dir \cup WrittenFiles(r.writes)
           /\ ens' = [ens EXCEPT ![t] = IF inner THEN NoFrame ELSE r.frame]
           /\ seq' = [seq EXCEPT ![t] =
                 IF ~inner THEN @
                 ELSE IF r.result.status = "raised"
                      THEN SequenceRaised(@, InnerArgs(@))
                      ELSE AfterInner(@, InnerArgs(@), r.result.created_files,
                                      r.result.offset_bin)]
           /\ ret' = [ret EXCEPT ![t] =
                 IF ~inner THEN [op |-> "sample_pulse_block_ensemble"] @@ r.result
                 ELSE IF r.result.status = "raised"
                      THEN [op |-> "sample_pulse_sequence"] @@ r.result
                      ELSE @]
    /\ invoked' = [by |-> t, op |-> "return_ensemble"]
    /\ UNCHANGED persistence
    /\ UNCHANGED <<settings, saved_pulse_block_ensembles, saved_pulse_sequences,
                   sequence_dir, removed>>

\* mutant of SequenceBusy: the check tests for a state lock() never sets
SequenceBusyWrongState == state = "running"

\* line 882: sample_pulse_sequence finds the module busy
SequenceBusy == state # "idle"

\* a caller calls sample_pulse_sequence (lines 881-914)
SamplePulseSequence(t, sequence_name, write_to_file, chunkwise) ==
    /\ Outside(t)
    /\ sequence_name \in DOMAIN saved_pulse_sequences
    /\ LET busy == SequenceBusy
           filename_list == IF write_to_file /\ ~busy
                            THEN OldSequenceFiles(sequence_name) ELSE {}
       IN  /\ state' = IF busy THEN state ELSE "locked"
           /\ sequence_dir' = sequence_dir \ filename_list
           /\ removed' = [removed EXCEPT ![t] = filename_list]
           /\ seq' = [seq EXCEPT ![t] =
                 IF busy THEN NoFrame
                 ELSE [pc |-> "loop",
                       sequence_name |-> sequence_name,
                       write_to_file |-> write_to_file,
                       chunkwise |-> chunkwise,
                       sequence_obj |-> saved_pulse_sequences[sequence_name],
                       sequence_param_dict_list |-> <<>>,
                       sampled_ensembles |-> <<>>,
                       ensemble_index |-> 0,
                       offset_bin |-> 0,
                       inner |-> <<>>,
                       dump_ok |-> TRUE]]
           /\ ret' = [ret EXCEPT ![t] =
                 IF busy
                 THEN [op |-> "sample_pulse_sequence", status |-> "returned",
                       error |-> "Busy"]
                 ELSE NoResult]
    /\ ens' = [ens EXCEPT ![t] = NoFrame]
    /\ writer_log' = [writer_log EXCEPT ![t] = <<>>]
    /\ signal_log' = [signal_log EXCEPT ![t] = <<>>]
    /\ invoked' = [by |-> t, op |-> "sample_pulse_sequence"]
    /\ UNCHANGED persistence
    /\ UNCHANGED <<settings, saved_pulse_block_ensembles, saved_pulse_sequences,
                   waveform_dir>>

\* sample_pulse_sequence calls sample_pulse_block_ensemble for its next entry
\* (lines 915-926, 948-955); a call that returns at the channel check returns
\* into the loop body at once
SequenceSampleEnsemble(t) ==
    /\ Active(seq[t])
    /\ ~Active(ens[t])
    /\ seq[t].ensemble_index < InnerCalls(seq[t])
    /\ LET args == InnerArgs(seq[t])
           e == EnterEnsemble(args.ensemble_name, seq[t].write_to_file,
                              seq[t].chunkwise, args.offset_bin, args.name_tag)
       IN  /\ args.ensemble_name \in DOMAIN saved_pulse_block_ensembles
           /\ state' = e.state
           /\ waveform_dir' = waveform_dir \ e.removed
           /\ removed' = [removed EXCEPT ![t] = @ \cup e.removed]
           /\ ens' = [ens EXCEPT ![t] = IF e.returned THEN NoFrame ELSE e.frame]
           /\ seq' = [seq EXCEPT ![t] =
                 IF e.returned
                 THEN AfterInner(@, args, e.result.created_files, e.result.offset_bin)
                 ELSE @]
    /\ invoked' = [by |-> t, op |-> "sequence_sample_ensemble"]
    /\ UNCHANGED persistence
    /\ UNCHANGED <<settings, saved_pulse_block_ensembles, saved_pulse_sequences,
                   sequence_dir, ret, writer_log, signal_log>>

\* sample_pulse_sequence after its loops (lines 961-987): the step descriptors,
\* save_sequence, the sequence writer, the completion signal, the unlock
ReturnSequence(t) ==
    /\ Active(seq[t])
    /\ ~Active(ens[t])
    /\ seq[t].ensemble_index = InnerCalls(seq[t])
    /\ LET sframe == seq[t]
           sequence_param_dict_list ==
               IF sframe.sequence_obj.rotating_frame
               THEN sframe.sequence_param_dict_list
               ELSE SharedParamDicts(sframe)
           sequence_obj ==
               [sframe.sequence_obj EXCEPT
                    !.sampled_ensembles = sframe.sampled_ensembles,
                    !.name = sframe.sequence_name]
       IN  /\ saved_pulse_sequences' =
                 Stored(saved_pulse_sequences, sframe.sequence_name, sequence_obj)
           /\ current' = [current EXCEPT !["sequence"] = sequence_obj]
           /\ \E dump_ok \in BOOLEAN :
                 /\ disk' = [disk EXCEPT !["sequence"] =
                              SaveToFile(@, saved_pulse_sequences', dump_ok, platform)]
                 /\ seq' = [seq EXCEPT ![t] =
                       [sframe EXCEPT !.pc = "returned",
                                      !.sequence_obj = sequence_obj,
                                      !.sequence_param_dict_list = sequence_param_dict_list,
                                      !.dump_ok = dump_ok]]
           /\ writer_log' = [writer_log EXCEPT ![t] =
                 Append(@, SequenceCall(sframe.sequence_name, sequence_param_dict_list))]
           /\ sequence_dir' = sequence_dir \cup Range(SequenceFiles(sframe.sequence_name))
           /\ signal_log' = [signal_log EXCEPT ![t] =
                 @ \o << <<"sigSequenceDictUpdated">>, <<"sigCurrentSequenceUpdated">>,
                         <<"sigSampleSequenceComplete", sframe.sequence_name>> >>]
    /\ state' = "idle"
    /\ ret' = [ret EXCEPT ![t] =
          [op |-> "sample_pulse_sequence", status |-> "returned", error |-> "none"]]
    /\ invoked' = [by |-> t, op |-> "return_sequence"]
    /\ UNCHANGED <<settings, saved_pulse_block_ensembles, waveform_dir, ens, removed,
                   saved_pulse_blocks, saving, platform, load_log, ops, gen,
                   activation_config, laser_channel, counter, optimizer>>

-----------------------------------------------------------------------------
(* Initial states and specifications *)

OffsetBins == {0, MaxOffset}

\* the state after construction and activation with the given assets on disk
InitWith(ensembles, sequences, rate) ==
    /\ state = "idle"
    /\ sample_rate = rate
    /\ analog_channels = InitAnalogChannels
    /\ digital_channels = InitDigitalChannels
    /\ saved_pulse_block_ensembles = ensembles
    /\ saved_pulse_sequences = sequences
    /\ waveform_dir = {}
    /\ sequence_dir = {}
    /\ ens = [t \in Callers |-> NoFrame]
    /\ seq = [t \in Callers |-> NoFrame]
    /\ ret = [t \in Callers |-> NoResult]
    /\ writer_log = [t \in Callers |-> <<>>]
    /\ signal_log = [t \in Callers |-> <<>>]
    /\ removed = [t \in Callers |-> {}]
    /\ invoked = [by |-> "none", op |-> "activate"]
    /\ saved_pulse_blocks = <<>>
    /\ current = [kind \in Kinds |-> None]
    /\ disk = [kind \in Kinds |->
                 [canon |-> Dumped(CASE kind = "block" -> <<>>
                                     [] kind = "ensemble" -> ensembles
                                     [] kind = "sequence" -> sequences),
                  tmp |-> NoFile]]
    /\ saving = NoFrame
    /\ platform = "posix"
    /\ load_log = {}
    /\ ops = 0
    /\ gen = NoFrame
    /\ counter = NoCounter
    /\ optimizer = NoOptimizer
    /\ activation_config = InitActivationConfig
    /\ laser_channel = Some("d_ch1")

\* a store of one entry
Single(name, obj) == [x \in {name} |-> obj]

\* the ensembles of the two-caller specification: "e" fits the configured
\* channels, "m" declares one analog channel less
EnsembleE(rotating) ==
    PulseBlockEnsemble(<<"e">>,
        << [block |-> PulseBlock(<<"b2">>, << PulseBlockElement(2, 1, FALSE, "Sin"),
                                              PulseBlockElement(5, 0, TRUE, "Idle") >>),
            reps |-> 0] >>,
        InitAnalogChannels, InitDigitalChannels, rotating)

EnsembleM ==
    PulseBlockEnsemble(<<"m">>,
        << [block |-> PulseBlock(<<"b1">>, << PulseBlockElement(1, 2, TRUE, "DC") >>),
            reps |-> 1] >>,
        InitAnalogChannels - 1, InitDigitalChannels, TRUE)

\* ensemble_param_list over the given names; the parameters of a step are its position
ParamList(names) == [i \in DOMAIN names |-> [ensemble |-> names[i], param |-> i]]

\* the stored sequence of the two-caller specification: a step that is sampled
\* and a step that fails the channel check
Init ==
    \E seq_rotating \in BOOLEAN :
        InitWith([x \in {<<"e">>, <<"m">>} |->
                     IF x = <<"e">> THEN EnsembleE(TRUE) ELSE EnsembleM],
                 Single(<<"s">>, PulseSequence(<<"s">>, ParamList(<< <<"e">>, <<"m">> >>),
                                               seq_rotating)),
                 1)

\* Caller c1 passes any arguments; caller c2 is a second thread that calls the
\* two methods with their default arguments (write_to_file=True, chunkwise=True,
\* offset_bin=0).
Next ==
    \/ \E ensemble_name \in DOMAIN saved_pulse_block_ensembles,
          write_to_file \in BOOLEAN, chunkwise \in BOOLEAN, offset_bin \in OffsetBins :
            SamplePulseBlockEnsemble("c1", ensemble_name, write_to_file, chunkwise,
                                     offset_bin)
    \/ \E ensemble_name \in DOMAIN saved_pulse_block_ensembles :
            SamplePulseBlockEnsemble("c2", ensemble_name, TRUE, TRUE, 0)
    \/ \E sequence_name \in DOMAIN saved_pulse_sequences,
          write_to_file \in BOOLEAN, chunkwise \in BOOLEAN :
            SamplePulseSequence("c1", sequence_name, write_to_file, chunkwise)
    \/ \E sequence_name \in DOMAIN saved_pulse_sequences :
            SamplePulseSequence("c2", sequence_name, TRUE, TRUE)
    \/ \E t \in Callers :
        \/ SampleElement(t)
        \/ ReturnEnsemble(t)
        \/ SequenceSampleEnsemble(t)
        \/ ReturnSequence(t)

Spec == Init /\ [][Next]_vars

\* one caller sampling one ensemble drawn from the ensembles under test
SampleRates == {1, 2}

InitSampler ==
    \E block_list \in BlockLists, rotating \in BOOLEAN, rate \in SampleRates :
        InitWith(Single(<<"e">>, PulseBlockEnsemble(<<"e">>, block_list,
                                     InitAnalogChannels, InitDigitalChannels, rotating)),
                 <<>>, rate)

NextSampler ==
    \/ \E write_to_file \in BOOLEAN, chunkwise \in BOOLEAN, offset_bin \in OffsetBins :
            SamplePulseBlockEnsemble("c1", <<"e">>, write_to_file, chunkwise, offset_bin)
    \/ SampleElement("c1")
    \/ ReturnEnsemble("c1")

SpecSampler == InitSampler /\ [][NextSampler]_vars

\* the same ensemble sampled twice from the same offset_bin: caller c1 samples
\* it chunkwise into files, then caller c2 samples it as a whole
NextModes ==
    \/ \E offset_bin \in OffsetBins :
            /\ ens["c1"].pc = "none"
            /\ SamplePulseBlockEnsemble("c1", <<"e">>, TRUE, TRUE, offset_bin)
    \/ \E write_to_file \in BOOLEAN :
            /\ ens["c1"].pc = "returned"
            /\ ens["c2"].pc = "none"
            /\ SamplePulseBlockEnsemble("c2", <<"e">>, write_to_file, FALSE,
                                        ens["c1"].offset_in)
    \/ \E t \in Callers :
        \/ SampleElement(t)
        \/ ReturnEnsemble(t)

SpecModes == InitSampler /\ [][NextModes]_vars

\* a stored ensemble whose name ends like the tag of a first occurrence; it is
\* not in the rotating frame and has an element of no bins
EnsembleTagged ==
    PulseBlockEnsemble(<<"e", "_000">>,
        << [block |-> PulseBlock(<<"b1">>, << PulseBlockElement(1, 2, TRUE, "DC") >>),
            reps |-> 1] >>,
        InitAnalogChannels, InitDigitalChannels, FALSE)

\* the ensembles the sequences under test refer to
StoredEnsembles ==
    [x \in {<<"e">>, <<"e", "_000">>, <<"m">>} |->
        IF x = <<"e">> THEN EnsembleE(TRUE)
        ELSE IF x = <<"m">> THEN EnsembleM
        ELSE EnsembleTagged]

\* one caller sampling one sequence drawn from the sequences over the stored
\* ensembles, with repeated names
InitSequence ==
    \E names \in SeqsOf(DOMAIN StoredEnsembles, 0, MaxSteps), seq_rotating \in BOOLEAN :
        InitWith(StoredEnsembles,
                 Single(<<"s">>, PulseSequence(<<"s">>, ParamList(names), seq_rotating)),
                 1)

NextSequence ==
    \/ \E write_to_file \in BOOLEAN, chunkwise \in BOOLEAN :
            SamplePulseSequence("c1", <<"s">>, write_to_file, chunkwise)
    \/ SequenceSampleEnsemble("c1")
    \/ SampleElement("c1")
    \/ ReturnEnsemble("c1")
    \/ ReturnSequence("c1")

SpecSequence == InitSequence /\ [][NextSequence]_vars

-----------------------------------------------------------------------------
(* The asset store: save, load, delete, the steps of a save, crash and restart *)

\* a metadata value that is set (None is the unset one)
\* the ensemble obj with the sample_rate it was created for as metadata
Metadata(obj, rate) ==
    [x \in (DOMAIN obj) \cup {"sample_rate"} |->
        IF x = "sample_rate" THEN rate ELSE obj[x]]

\* the names and the objects the callers of the store pass, by kind
AssetNames(kind) ==
    CASE kind = "block" -> { <<"b1">> }
      [] kind = "ensemble" -> { <<"e">>, <<"m">> }
      [] kind = "sequence" -> { <<"s">> }

AssetObjects(kind) ==
    CASE kind = "block" ->
            { PulseBlock(<<"b1">>, << PulseBlockElement(1, 2, TRUE, "DC") >>) }
      [] kind = "ensemble" ->
            { Metadata(EnsembleE(TRUE), Some(2)), Metadata(EnsembleM, None) }
      [] kind = "sequence" ->
            { PulseSequence(<<"s">>, ParamList(<< <<"e">> >>), FALSE) }

\* the metadata attribute of a stored object; None when the object was built
\* without it
Attribute(obj, field) == IF field \in DOMAIN obj THEN obj[field] ELSE None

\* load_ensemble, load_sequence: a setting found in the metadata is taken over
TakenOver(obj, field, setting) ==
    IF Attribute(obj, field) # None THEN Attribute(obj, field).value ELSE setting

\* the variables save_*, delete_* and load_* do not touch
untouched == <<analog_channels, digital_channels, waveform_dir, sequence_dir,
               ens, seq, ret, writer_log, signal_log, removed, gen, counter, optimizer>>

\* the variables the methods of the store do not touch
sampler == <<analog_channels, digital_channels, waveform_dir, sequence_dir,
             ens, seq, ret, writer_log, signal_log, removed, gen,
             activation_config, laser_channel, counter, optimizer>>

\* a _save_*_to_file call is between two of its steps
Saving == saving.pc \in {"open", "dump", "rename", "remove", "rename2"}

\* the dict of the kind becomes map, the other two dicts stay
MapsBecome(kind, map) ==
    /\ saved_pulse_blocks' = IF kind = "block" THEN map ELSE saved_pulse_blocks
    /\ saved_pulse_block_ensembles' =
            IF kind = "ensemble" THEN map ELSE saved_pulse_block_ensembles
    /\ saved_pulse_sequences' = IF kind = "sequence" THEN map ELSE saved_pulse_sequences

\* save_block / save_ensemble / save_sequence up to the call of _save_*_to_file
Save(kind, name, obj) ==
    /\ state = "idle"
    /\ ~Saving
    /\ ops > 0
    /\ LET map == Stored(MapOf(kind), name, obj)
       IN  /\ MapsBecome(kind, map)
           /\ current' = [current EXCEPT ![kind] = map[name]]
           /\ saving' = [pc |-> "open", op |-> "save", kind |-> kind, name |-> name,
                         obj |-> obj, at |-> "none", prev |-> disk[kind].canon, new |-> map]
    /\ ops' = ops - 1
    /\ invoked' = [by |-> "c1", op |-> "save", kind |-> kind, name |-> name]
    /\ UNCHANGED <<state, sample_rate, sampler, disk, platform, load_log>>

SaveBlock(name, block) == Save("block", name, block)
SaveEnsemble(name, ensemble) == Save("ensemble", name, ensemble)
SaveSequence(name, sequence) == Save("sequence", name, sequence)

\* delete_block / delete_ensemble / delete_sequence up to the call of
\* _save_*_to_file; an unknown name is logged and nothing is removed
Delete(kind, name) ==
    /\ state = "idle"
    /\ ~Saving
    /\ ops > 0
    /\ IF name \in DOMAIN MapOf(kind)
       THEN LET map == DictDel(MapOf(kind), name)
            IN  /\ MapsBecome(kind, map)
                /\ current' = [current EXCEPT ![kind] =
                                 IF @ # None /\ @.name = name THEN None ELSE @]
                /\ saving' = [pc |-> "open", op |-> "delete", kind |-> kind,
                              name |-> name, obj |-> MapOf(kind)[name], at |-> "none",
                              prev |-> disk[kind].canon, new |-> map]
       ELSE UNCHANGED <<saved_pulse_blocks, saved_pulse_block_ensembles,
                        saved_pulse_sequences, current, saving>>
    /\ ops' = ops - 1
    /\ invoked' = [by |-> "c1", op |-> "delete", kind |-> kind, name |-> name]
    /\ UNCHANGED <<state, sample_rate, sampler, disk, platform, load_log>>

DeleteBlock(name) == Delete("block", name)
DeleteEnsemble(name) == Delete("ensemble", name)
DeleteSequence(name) == Delete("sequence", name)

\* load_ensemble: an unknown name is logged; otherwise the settings found in the
\* metadata of the ensemble are taken over and the ensemble becomes the current one
LoadEnsemble(name) ==
    /\ state = "idle"
    /\ ~Saving
    /\ IF name \in DOMAIN saved_pulse_block_ensembles
       THEN LET ensemble == saved_pulse_block_ensembles[name]
            IN  /\ sample_rate' = IF ensemble.sample_rate # None
                                  THEN ensemble.sample_rate.value ELSE sample_rate
                /\ activation_config' = TakenOver(ensemble, "activation_config",
                                                  activation_config)
                /\ laser_channel' = IF Attribute(ensemble, "laser_channel") # None
                                    THEN Attribute(ensemble, "laser_channel")
                                    ELSE laser_channel
                /\ current' = [current EXCEPT !["ensemble"] = ensemble]
       ELSE UNCHANGED <<sample_rate, activation_config, laser_channel, current>>
    /\ invoked' = [by |-> "c1", op |-> "load", kind |-> "ensemble", name |-> name]
    /\ UNCHANGED <<state, untouched, saved_pulse_blocks, saved_pulse_block_ensembles,
                   saved_pulse_sequences, disk, saving, platform, load_log, ops>>

\* the step of the save in progress changes the directory of its kind only
SaveStep(pc, dir, next_pc) ==
    /\ saving.pc = pc
    /\ disk' = [disk EXCEPT ![saving.kind] = dir]
    /\ saving' = [saving EXCEPT !.pc = next_pc]
    /\ invoked' = [by |-> "c1", op |-> pc, kind |-> saving.kind, name |-> saving.name]
    /\ UNCHANGED <<state, sample_rate, sampler, saved_pulse_blocks,
                   saved_pulse_block_ensembles, saved_pulse_sequences,
                   current, platform, load_log, ops>>

\* _save_*_to_file: open(<dict file>.tmp, 'wb')
OpenTmp == SaveStep("open", Opened(disk[saving.kind]), "dump")

\* mutant of DumpRaised: the except branch falls through to the rename
DumpRaisedFallsThrough == "rename"

\* _save_*_to_file, except: the error is logged and the method returns
DumpRaised == "failed"

\* _save_*_to_file: pickle.dump and close; when it raises the error is logged
\* and the call returns, the temporary file stays as far as it was written
Dump ==
    \E dump_ok \in BOOLEAN :
        IF dump_ok
        THEN SaveStep("dump", [disk[saving.kind] EXCEPT !.tmp = Dumped(saving.new)],
                      "rename")
        ELSE SaveStep("dump", disk[saving.kind], DumpRaised)

\* _save_*_to_file: os.rename of the temporary file to the dict file
Rename ==
    /\ saving.pc = "rename"
    /\ IF RenameRaises(disk[saving.kind], platform)
       THEN SaveStep("rename", disk[saving.kind], "remove")
       ELSE SaveStep("rename", Renamed(disk[saving.kind]), "done")

\* _save_*_to_file, except WindowsError: os.remove of the dict file
Remove == SaveStep("remove", Removed(disk[saving.kind]), "rename2")

\* _save_*_to_file, except WindowsError: the second os.rename
Rename2 == SaveStep("rename2", Renamed(disk[saving.kind]), "done")

\* the process dies between two steps of a save: the objects in memory are gone,
\* the files stay; the settings come back as some earlier run stored them
Crash ==
    /\ Saving
    /\ state' = "deactivated"
    /\ saving' = [saving EXCEPT !.pc = "crashed", !.at = saving.pc]
    /\ saved_pulse_blocks' = <<>>
    /\ saved_pulse_block_ensembles' = <<>>
    /\ saved_pulse_sequences' = <<>>
    /\ current' = [kind \in Kinds |-> None]
    /\ \E rate \in SampleRates : sample_rate' = rate
    /\ invoked' = [by |-> "c1", op |-> "crash", kind |-> saving.kind, name |-> saving.name]
    /\ UNCHANGED <<sampler, disk, platform, load_log, ops>>

\* on_deactivate: the settings go to the status variables
Deactivate ==
    /\ state = "idle"
    /\ ~Saving
    /\ state' = "deactivated"
    /\ invoked' = [by |-> "c1", op |-> "deactivate"]
    /\ UNCHANGED <<sample_rate, sampler, saved_pulse_blocks, saved_pulse_block_ensembles,
                   saved_pulse_sequences, current, disk, saving, platform, load_log, ops>>

\* what a _get_*_from_file call over the listing adds to the log of picks: the
\* pick and whether it was logged, when there was more than one candidate
Pick(kind, listing) ==
    IF Len(listing) > 1
    THEN { [kind |-> kind, files |-> Range(listing),
            picked |-> GetFromFile(disk[kind], listing).picked,
            reported |-> GetFromFile(disk[kind], listing).reported] }
    ELSE {}

\* on_activate: the three dicts are read from their directories, each listed in
\* some order
Activate ==
    /\ state = "deactivated"
    /\ \E blocks \in Listings(CandidateFiles(disk["block"])),
          ensembles \in Listings(CandidateFiles(disk["ensemble"])),
          sequences \in Listings(CandidateFiles(disk["sequence"])) :
            /\ saved_pulse_blocks' = GetFromFile(disk["block"], blocks).map
            /\ saved_pulse_block_ensembles' =
                    GetFromFile(disk["ensemble"], ensembles).map
            /\ saved_pulse_sequences' = GetFromFile(disk["sequence"], sequences).map
            /\ load_log' = load_log \cup Pick("block", blocks)
                                    \cup Pick("ensemble", ensembles)
                                    \cup Pick("sequence", sequences)
    /\ state' = "idle"
    /\ invoked' = [by |-> "c1", op |-> "activate"]
    /\ UNCHANGED <<sample_rate, sampler, current, disk, saving, platform, ops>>

\* the process is started on a host of either kind over directories that an
\* earlier run left: no dict file yet, or a dict file with one asset
InitStore ==
    /\ state = "deactivated"
    /\ sample_rate = 1
    /\ analog_channels = InitAnalogChannels
    /\ digital_channels = InitDigitalChannels
    /\ saved_pulse_blocks = <<>>
    /\ saved_pulse_block_ensembles = <<>>
    /\ saved_pulse_sequences = <<>>
    /\ waveform_dir = {}
    /\ sequence_dir = {}
    /\ ens = [t \in Callers |-> NoFrame]
    /\ seq = [t \in Callers |-> NoFrame]
    /\ ret = [t \in Callers |-> NoResult]
    /\ writer_log = [t \in Callers |-> <<>>]
    /\ signal_log = [t \in Callers |-> <<>>]
    /\ removed = [t \in Callers |-> {}]
    /\ invoked = [by |-> "none", op |-> "none"]
    /\ current = [kind \in Kinds |-> None]
    /\ \E present \in {{}, Kinds} :
          disk = [kind \in Kinds |->
                    [canon |-> IF kind \in present
                               THEN Dumped(Stored(<<>>,
                                                  CHOOSE n \in AssetNames(kind) : TRUE,
                                                  CHOOSE o \in AssetObjects(kind) : TRUE))
                               ELSE NoFile,
                     tmp |-> NoFile]]
    /\ saving = NoFrame
    /\ platform \in {"posix", "nt"}
    /\ load_log = {}
    /\ ops = MaxOps
    /\ gen = NoFrame
    /\ counter = NoCounter
    /\ optimizer = NoOptimizer
    /\ activation_config = InitActivationConfig
    /\ laser_channel = Some("d_ch1")

NextStore ==
    \/ Activate
    \/ Deactivate
    \/ \E name \in AssetNames("block"), block \in AssetObjects("block") :
            SaveBlock(name, block)
    \/ \E name \in AssetNames("ensemble"), ensemble \in AssetObjects("ensemble") :
            SaveEnsemble(name, ensemble)
    \/ \E name \in AssetNames("sequence"), sequence \in AssetObjects("sequence") :
            SaveSequence(name, sequence)
    \/ \E name \in AssetNames("block") : DeleteBlock(name)
    \/ \E name \in AssetNames("ensemble") : DeleteEnsemble(name)
    \/ \E name \in AssetNames("sequence") : DeleteSequence(name)
    \/ \E name \in AssetNames("ensemble") : LoadEnsemble(name)
    \/ OpenTmp
    \/ Dump
    \/ Rename
    \/ Remove
    \/ Rename2
    \/ Crash

SpecStore == InitStore /\ [][NextStore]_vars

-----------------------------------------------------------------------------
(* The asset store under a caller that keeps its objects and passes them again *)

\* the object obj of the caller, marked so that it is recognised when passed again
Handle(obj, id) ==
    [x \in (DOMAIN obj) \cup {"id"} |-> IF x = "id" THEN id ELSE obj[x]]

\* the objects of each kind that the caller holds (two blocks, one ensemble,
\* one sequence), and the names it uses
HeldObjects(kind) ==
    CASE kind = "block" ->
            { Handle(PulseBlock(<<"b1">>, << PulseBlockElement(1, 2, TRUE, "DC") >>), 1),
              Handle(PulseBlock(<<"b0">>, <<>>), 2) }
      [] kind = "ensemble" ->
            { Handle(Metadata(EnsembleE(TRUE), Some(2)), 1) }
      [] kind = "sequence" ->
            { Handle(Metadata(PulseSequence(<<"s">>, ParamList(<< <<"e">> >>), FALSE),
                              None), 1) }

HeldNames == { <<"a">>, <<"b">> }

\* load_block: an unknown name is logged; otherwise the block becomes the current one
LoadBlock(name) ==
    /\ state = "idle"
    /\ ~Saving
    /\ IF name \in DOMAIN saved_pulse_blocks
       THEN current' = [current EXCEPT !["block"] = saved_pulse_blocks[name]]
       ELSE UNCHANGED current
    /\ invoked' = [by |-> "c1", op |-> "load", kind |-> "block", name |-> name]
    /\ UNCHANGED <<state, sample_rate, sampler, saved_pulse_blocks,
                   saved_pulse_block_ensembles, saved_pulse_sequences,
                   disk, saving, platform, load_log, ops>>

\* load_sequence: an unknown name is logged; otherwise the settings found in the
\* metadata of the sequence are taken over and the sequence becomes the current one
LoadSequence(name) ==
    /\ state = "idle"
    /\ ~Saving
    /\ IF name \in DOMAIN saved_pulse_sequences
       THEN LET sequence == saved_pulse_sequences[name]
            IN  /\ sample_rate' = IF sequence.sample_rate # None
                                  THEN sequence.sample_rate.value ELSE sample_rate
                /\ activation_config' = TakenOver(sequence, "activation_config",
                                                  activation_config)
                /\ laser_channel' = IF Attribute(sequence, "laser_channel") # None
                                    THEN Attribute(sequence, "laser_channel")
                                    ELSE laser_channel
                /\ current' = [current EXCEPT !["sequence"] = sequence]
       ELSE UNCHANGED <<sample_rate, activation_config, laser_channel, current>>
    /\ invoked' = [by |-> "c1", op |-> "load", kind |-> "sequence", name |-> name]
    /\ UNCHANGED <<state, untouched, saved_pulse_blocks, saved_pulse_block_ensembles,
                   saved_pulse_sequences, disk, saving, platform, load_log, ops>>

\* the module is active over empty directories
InitAlias ==
    /\ state = "idle"
    /\ sample_rate = 1
    /\ analog_channels = InitAnalogChannels
    /\ digital_channels = InitDigitalChannels
    /\ saved_pulse_blocks = <<>>
    /\ saved_pulse_block_ensembles = <<>>
    /\ saved_pulse_sequences = <<>>
    /\ waveform_dir = {}
    /\ sequence_dir = {}
    /\ ens = [t \in Callers |-> NoFrame]
    /\ seq = [t \in Callers |-> NoFrame]
    /\ ret = [t \in Callers |-> NoResult]
    /\ writer_log = [t \in Callers |-> <<>>]
    /\ signal_log = [t \in Callers |-> <<>>]
    /\ removed = [t \in Callers |-> {}]
    /\ invoked = [by |-> "none", op |-> "none"]
    /\ current = [kind \in Kinds |-> None]
    /\ disk = [kind \in Kinds |-> [canon |-> NoFile, tmp |-> NoFile]]
    /\ saving = NoFrame
    /\ platform = "posix"
    /\ load_log = {}
    /\ ops = MaxCalls
    /\ gen = NoFrame
    /\ counter = NoCounter
    /\ optimizer = NoOptimizer
    /\ activation_config = InitActivationConfig
    /\ laser_channel = Some("d_ch1")

NextAlias ==
    \/ \E name \in HeldNames, block \in HeldObjects("block") : SaveBlock(name, block)
    \/ \E name \in HeldNames, ensemble \in HeldObjects("ensemble") :
            SaveEnsemble(name, ensemble)
    \/ \E name \in HeldNames, sequence \in HeldObjects("sequence") :
            SaveSequence(name, sequence)
    \/ \E name \in HeldNames : DeleteBlock(name)
    \/ \E name \in HeldNames : DeleteEnsemble(name)
    \/ \E name \in HeldNames : DeleteSequence(name)
    \/ \E name \in HeldNames : LoadBlock(name)
    \/ \E name \in HeldNames : LoadEnsemble(name)
    \/ \E name \in HeldNames : LoadSequence(name)
    \/ OpenTmp
    \/ Dump
    \/ Rename

SpecAlias == InitAlias /\ [][NextAlias]_vars

-----------------------------------------------------------------------------
(* Saving blocks and sampling an ensemble that was built from stored blocks *)

\* the blocks in the store when the ensemble was built
BuiltFrom ==
    [x \in { <<"b1">>, <<"b2">> } |->
        IF x = <<"b1">>
        THEN PulseBlock(<<"b1">>, << PulseBlockElement(1, 2, TRUE, "DC") >>)
        ELSE PulseBlock(<<"b2">>, << PulseBlockElement(2, 1, FALSE, "Sin"),
                                     PulseBlockElement(5, 0, TRUE, "Idle") >>)]

\* the blocks that the caller saves afterwards
EditedBlocks ==
    { PulseBlock(<<"b1">>, << PulseBlockElement(3, 0, FALSE, "Sin") >>),
      PulseBlock(<<"b2">>, << PulseBlockElement(1, 2, TRUE, "DC") >>) }

\* the ensemble "e" was built from the stored blocks b1 (repeated once) and b2
\* and saved; the store and the files hold it
InitEdit ==
    /\ state = "idle"
    /\ sample_rate = 1
    /\ analog_channels = InitAnalogChannels
    /\ digital_channels = InitDigitalChannels
    /\ saved_pulse_blocks = BuiltFrom
    /\ \E rotating \in BOOLEAN :
          saved_pulse_block_ensembles =
              Single(<<"e">>,
                     PulseBlockEnsemble(<<"e">>,
                         << [block |-> BuiltFrom[<<"b1">>], reps |-> 1],
                            [block |-> BuiltFrom[<<"b2">>], reps |-> 0] >>,
                         InitAnalogChannels, InitDigitalChannels, rotating))
    /\ saved_pulse_sequences = <<>>
    /\ waveform_dir = {}
    /\ sequence_dir = {}
    /\ ens = [t \in Callers |-> NoFrame]
    /\ seq = [t \in Callers |-> NoFrame]
    /\ ret = [t \in Callers |-> NoResult]
    /\ writer_log = [t \in Callers |-> <<>>]
    /\ signal_log = [t \in Callers |-> <<>>]
    /\ removed = [t \in Callers |-> {}]
    /\ invoked = [by |-> "none", op |-> "none"]
    /\ current = [kind \in Kinds |-> None]
    /\ disk = [kind \in Kinds |-> [canon |-> Dumped(MapOf(kind)), tmp |-> NoFile]]
    /\ saving = NoFrame
    /\ platform = "posix"
    /\ load_log = {}
    /\ ops = MaxOps
    /\ gen = NoFrame
    /\ counter = NoCounter
    /\ optimizer = NoOptimizer
    /\ activation_config = InitActivationConfig
    /\ laser_channel = Some("d_ch1")

\* one caller: it saves blocks under the names the ensemble was built from and
\* samples the ensemble, one call after the other
NextEdit ==
    \/ \E name \in DOMAIN BuiltFrom, block \in EditedBlocks : SaveBlock(name, block)
    \/ OpenTmp
    \/ Dump
    \/ Rename
    \/ \E write_to_file \in BOOLEAN, chunkwise \in BOOLEAN :
            /\ ~Saving
            /\ SamplePulseBlockEnsemble("c1", <<"e">>, write_to_file, chunkwise, 0)
    \/ SampleElement("c1")
    \/ ReturnEnsemble("c1")

SpecEdit == InitEdit /\ [][NextEdit]_vars

-----------------------------------------------------------------------------
(* The loaders of on_activate, one step each, over directories in any condition *)

\* a file that exists and that pickle.load cannot read
Undeserializable == [exists |-> TRUE, complete |-> FALSE, blob |-> {}]

\* the dict of one asset that an earlier run held for the kind
EarlierMap(kind) ==
    Stored(<<>>, CHOOSE n \in AssetNames(kind) : TRUE,
                 CHOOSE o \in AssetObjects(kind) : TRUE)

\* _get_blocks_from_file / _get_ensembles_from_file / _get_sequences_from_file:
\* the dict of the kind is read from the file that comes last in the listing
Get(kind, listing, next_pc) ==
    /\ MapsBecome(kind, GetFromFile(disk[kind], listing).map)
    /\ load_log' = load_log \cup Pick(kind, listing)
    /\ saving' = [pc |-> next_pc]
    /\ invoked' = [by |-> "c1", op |-> "get", kind |-> kind]
    /\ UNCHANGED <<sample_rate, sampler, current, disk, platform, ops>>

\* on_activate, line 159
GetBlocksFromFile ==
    /\ state = "deactivated"
    /\ saving = NoFrame
    /\ \E listing \in Listings(CandidateFiles(disk["block"])) :
            Get("block", listing, "get_ensembles")
    /\ UNCHANGED state

\* on_activate, line 160
GetEnsemblesFromFile ==
    /\ saving.pc = "get_ensembles"
    /\ \E listing \in Listings(CandidateFiles(disk["ensemble"])) :
            Get("ensemble", listing, "get_sequences")
    /\ UNCHANGED state

\* on_activate, line 161 and the rest of the method
GetSequencesFromFile ==
    /\ saving.pc = "get_sequences"
    /\ \E listing \in Listings(CandidateFiles(disk["sequence"])) :
            Get("sequence", listing, "none")
    /\ state' = "idle"

\* the module is activated again over directories that hold any combination of
\* a missing, an intact or an unreadable dict file and temporary file, with the
\* dicts of the last activation still in memory
InitLoad ==
    /\ state = "deactivated"
    /\ sample_rate = 1
    /\ analog_channels = InitAnalogChannels
    /\ digital_channels = InitDigitalChannels
    /\ saved_pulse_blocks = EarlierMap("block")
    /\ saved_pulse_block_ensembles = EarlierMap("ensemble")
    /\ saved_pulse_sequences = EarlierMap("sequence")
    /\ waveform_dir = {}
    /\ sequence_dir = {}
    /\ ens = [t \in Callers |-> NoFrame]
    /\ seq = [t \in Callers |-> NoFrame]
    /\ ret = [t \in Callers |-> NoResult]
    /\ writer_log = [t \in Callers |-> <<>>]
    /\ signal_log = [t \in Callers |-> <<>>]
    /\ removed = [t \in Callers |-> {}]
    /\ invoked = [by |-> "none", op |-> "none"]
    /\ current = [kind \in Kinds |-> None]
    /\ disk \in [Kinds -> [canon : {NoFile, Undeserializable},
                           tmp : {NoFile, Undeserializable}]]
               \cup
               { [kind \in Kinds |-> [canon |-> IF kind \in intact THEN Dumped(EarlierMap(kind))
                                                ELSE IF kind \in missing THEN NoFile
                                                ELSE Undeserializable,
                                      tmp |-> IF kind \in leftover
                                              THEN Dumped(EarlierMap(kind)) ELSE NoFile]] :
                   intact \in SUBSET Kinds, missing \in SUBSET Kinds,
                   leftover \in SUBSET Kinds }
    /\ saving = NoFrame
    /\ platform = "posix"
    /\ load_log = {}
    /\ ops = 0
    /\ gen = NoFrame
    /\ counter = NoCounter
    /\ optimizer = NoOptimizer
    /\ activation_config = InitActivationConfig
    /\ laser_channel = Some("d_ch1")

NextLoad ==
    \/ GetBlocksFromFile
    \/ GetEnsemblesFromFile
    \/ GetSequencesFromFile
    \/ Deactivate

SpecLoad == InitLoad /\ [][NextLoad]_vars

-----------------------------------------------------------------------------
(* Claims about the busy state and the channel check, checked under Spec *)

\* caller t is in, or has returned from, a sample_pulse_block_ensemble call it
\* made itself (not a call made for it by sample_pulse_sequence)
OwnEnsembleCall(t) == ens[t].pc # "none" /\ seq[t].pc = "none"

\* caller t has just returned from sample_pulse_block_ensemble at the channel check
MismatchReturn(t) ==
    /\ OwnEnsembleCall(t)
    /\ ret[t].op = "sample_pulse_block_ensemble"
    /\ ret[t].error = "ChannelMismatch"

\* C1: a sample_pulse_block_ensemble call made while the generator is idle on
\* an ensemble whose channel counts differ from the configured ones returns
\* empty sample outputs, makes no writer call, and the generator is idle when
\* the call returns.
C1_MismatchLeavesIdle ==
    \A t \in Callers :
        ( /\ MismatchReturn(t)
          /\ ~ens[t].sequence_sampling_in_progress
          /\ invoked = [by |-> t, op |-> "sample_pulse_block_ensemble"] )
        => /\ ret[t].analog_samples = <<>>
           /\ ret[t].digital_samples = <<>>
           /\ writer_log[t] = <<>>
           /\ state = "idle"

\* C2: on a channel-count mismatch the offset returned by
\* sample_pulse_block_ensemble equals the offset_bin that was passed in.
C2_MismatchKeepsOffset ==
    \A t \in Callers :
        MismatchReturn(t) => ret[t].offset_bin = ens[t].offset_in

\* C3: a sample_pulse_block_ensemble call issued by an external caller while
\* another sample operation holds the busy state is rejected with a busy
\* condition: it deletes no files, makes no writer call and samples nothing.
C3_BusyEnsembleCallRejected ==
    \A t \in Callers :
        ( /\ OwnEnsembleCall(t)
          /\ ens[t].sequence_sampling_in_progress
          /\ ens[t].holder_active )
        => /\ ret[t].error = "Busy"
           /\ ~Active(ens[t])
           /\ removed[t] = {}
           /\ writer_log[t] = <<>>
           /\ ens[t].k = 0

\* the step is a sample_pulse_sequence call of caller t
SequenceCallStep(t) == invoked' = [by |-> t, op |-> "sample_pulse_sequence"]

\* C4: a sample_pulse_sequence call made while the generator is busy is
\* rejected: it starts no ensemble sampling, makes no writer call, deletes no
\* file, changes neither the asset maps nor a sampled_ensembles cache, and
\* leaves the busy state as it was.
C4_BusySequenceCallRejected ==
    [][ \A t \in Callers :
            (state # "idle" /\ SequenceCallStep(t))
            => /\ ret'[t].op = "sample_pulse_sequence"
               /\ ret'[t].error = "Busy"
               /\ ~Active(seq'[t])
               /\ ~Active(ens'[t])
               /\ writer_log'[t] = <<>>
               /\ removed'[t] = {}
               /\ state' = state
               /\ UNCHANGED <<saved_pulse_block_ensembles, saved_pulse_sequences,
                              waveform_dir, sequence_dir>>
               /\ \A u \in Callers \ {t} :
                    UNCHANGED <<ens[u], seq[u], ret[u], writer_log[u], signal_log[u]>> ]_vars

\* a sequence call was rejected while the other caller was inside an operation
\* that had written a first chunk and had old files of the sequence to lose
C4_Witness ==
    \E t \in Callers :
        /\ ret[t].op = "sample_pulse_sequence"
        /\ ret[t].error = "Busy"
        /\ invoked = [by |-> t, op |-> "sample_pulse_sequence"]
        /\ sequence_dir # {}
        /\ \E u \in Callers \ {t} : (Active(ens[u]) \/ Active(seq[u])) /\ writer_log[u] # <<>>

\* the signals of one name in a signal log
Emitted(log, name) == Cardinality({i \in DOMAIN log : log[i][1] = name})

\* C5: during one sample_pulse_sequence call the generator stays busy from the
\* lock acquisition until the final unlock: the inner
\* sample_pulse_block_ensemble calls never unlock it and never emit
\* sigSampleEnsembleComplete, and every sequence call that was not rejected
\* emits sigSampleSequenceComplete exactly once, as its last signal, and is
\* followed by the unlock.
C5_SequenceHoldsLock ==
    \A t \in Callers :
        /\ Active(seq[t])
           => /\ state = "locked"
              /\ Emitted(signal_log[t], "sigSampleEnsembleComplete") = 0
              /\ Emitted(signal_log[t], "sigSampleSequenceComplete") = 0
        /\ seq[t].pc = "returned"
           => /\ Emitted(signal_log[t], "sigSampleEnsembleComplete") = 0
              /\ Emitted(signal_log[t], "sigSampleSequenceComplete") = 1
              /\ signal_log[t][Len(signal_log[t])][1] = "sigSampleSequenceComplete"
              /\ invoked = [by |-> t, op |-> "return_sequence"] => state = "idle"

-----------------------------------------------------------------------------
(* Claims about one sampling call, checked under SpecSampler and SpecModes *)

\* lines 750, 779: the call writes every element to file as it is sampled
ChunkedMode(frame) == frame.chunkwise /\ frame.write_to_file

\* caller t is in, or has left, the loops of a sample_pulse_block_ensemble call
\* of its own that passed the channel check
Sampling(t) == OwnEnsembleCall(t) /\ ret[t].error # "ChannelMismatch"

\* that call has left its loops
Sampled(t) == Sampling(t) /\ ens[t].pc = "returned"

\* what _analyze_block_ensemble computes for the ensemble of caller t's call
Analysis(t) == AnalyzeBlockEnsemble(ens[t].ensemble, sample_rate)

\* the lengths of the sample arrays handed to the writer by caller t's call
ChunkLengths(t) == [i \in DOMAIN writer_log[t] |-> Len(writer_log[t][i].samples)]

\* C6: number_of_samples of _analyze_block_ensemble equals what
\* sample_pulse_block_ensemble emits (the sum of the chunk lengths handed to
\* the writer when chunked, the final cursor entry_ind otherwise), and
\* number_of_elements equals the number of elements the loops visit.
C6_CountConsistency ==
    \A t \in Callers :
        Sampled(t)
        => /\ IF ChunkedMode(ens[t])
              THEN SumSeq(ChunkLengths(t)) = Analysis(t).number_of_samples
              ELSE ens[t].entry_ind = Analysis(t).number_of_samples
           /\ ens[t].k = Analysis(t).number_of_elements
           /\ Len(ens[t].time_log) = Analysis(t).number_of_elements

\* a chunked call ended after three or more elements, one of them of a length
\* that falls between two bins
C6_Witness ==
    \E t \in Callers :
        /\ Sampled(t)
        /\ ChunkedMode(ens[t])
        /\ ens[t].k >= 3
        /\ sample_rate = 1
        /\ SumSeq(ChunkLengths(t)) >= 4

\* C7: for an ensemble with rotating_frame, the call that samples it as a whole
\* and the call that samples it chunkwise from the same offset_bin return the
\* same offset, and element for element use the same time origin and length and
\* produce the same samples.
C7_PhaseContinuity ==
    ( /\ Sampled("c1") /\ ChunkedMode(ens["c1"])
      /\ Sampled("c2") /\ ~ChunkedMode(ens["c2"])
      /\ ens["c1"].ensemble = ens["c2"].ensemble
      /\ ens["c1"].offset_in = ens["c2"].offset_in
      /\ ens["c1"].ensemble.rotating_frame )
    => /\ ret["c1"].status = "returned"
       /\ ret["c2"].status = "returned"
       /\ ret["c1"].offset_bin = ret["c2"].offset_bin
       /\ ens["c1"].time_log = ens["c2"].time_log
       /\ Flatten([i \in DOMAIN writer_log["c1"] |-> writer_log["c1"][i].samples])
            = ens["c2"].samples

\* C8: a call on an ensemble that passes the channel check returns
\* offset_bin + number_of_samples when the ensemble has rotating_frame and the
\* offset_bin it was given when not; the time vector of each element starts at
\* the offset_bin given plus, with rotating_frame, the bins of the elements
\* before it.
C8_ReturnedOffset ==
    \A t \in Callers :
        Sampling(t)
        => LET frame == ens[t]
               rotating == frame.ensemble.rotating_frame
               bins == Analysis(t).state_length_bins_arr
           IN  /\ \A j \in DOMAIN frame.time_log :
                    frame.time_log[j].t0 =
                        frame.offset_in
                        + (IF rotating THEN SumSeq(SubSeq(bins, 1, j - 1)) ELSE 0)
               /\ frame.pc = "returned"
                  => /\ ret[t].status = "returned"
                     /\ ret[t].offset_bin =
                            frame.offset_in
                            + (IF rotating THEN Analysis(t).number_of_samples ELSE 0)

\* C9: a chunkwise call that writes to file calls the waveform writer once per
\* element, number_of_elements times in all, each time with the samples of that
\* element and the same number_of_samples; is_first_chunk is true on the first
\* call only and is_last_chunk on the last call only.
C9_ChunkedWriterCalls ==
    \A t \in Callers :
        (Sampling(t) /\ ChunkedMode(ens[t]))
        => LET log == writer_log[t]
               a == Analysis(t)
               visited == Traversal(ens[t].ensemble.block_list)
           IN  /\ Len(log) = ens[t].k
               /\ ens[t].pc = "returned" => Len(log) = a.number_of_elements
               /\ \A i \in DOMAIN log :
                    /\ log[i].method = "waveform"
                    /\ log[i].samples =
                           ElementSamples(visited[i].block_element,
                                          a.state_length_bins_arr[i],
                                          ens[t].time_log[i].t0)
                    /\ log[i].total_number_of_samples = a.number_of_samples
                    /\ log[i].is_first_chunk <=> (i = 1)
                    /\ log[i].is_last_chunk <=> (i = a.number_of_elements)

\* a chunkwise call ended with a finalizing call after two or more others, for
\* an ensemble whose sample total differs from its element count
C9_Witness ==
    \E t \in Callers :
        /\ Sampled(t)
        /\ ChunkedMode(ens[t])
        /\ Len(writer_log[t]) >= 3
        /\ writer_log[t][Len(writer_log[t])].is_last_chunk
        /\ Analysis(t).number_of_samples # Analysis(t).number_of_elements

\* C10: a call that writes to file and is not chunkwise makes no writer call
\* while it samples and exactly one after the last element, with
\* is_first_chunk and is_last_chunk both true, number_of_samples as the
\* expected count and the filled array of that length.
C10_MonolithicSingleWrite ==
    \A t \in Callers :
        (Sampling(t) /\ ens[t].write_to_file /\ ~ens[t].chunkwise)
        => LET log == writer_log[t]
               a == Analysis(t)
           IN  /\ Active(ens[t]) => log = <<>>
               /\ ens[t].pc = "returned"
                  => /\ Len(log) = 1
                     /\ ens[t].k = a.number_of_elements
                     /\ log[1].method = "waveform"
                     /\ log[1].is_first_chunk
                     /\ log[1].is_last_chunk
                     /\ log[1].total_number_of_samples = a.number_of_samples
                     /\ Len(log[1].samples) = a.number_of_samples
                     /\ \A i \in DOMAIN log[1].samples : log[1].samples[i] # Uninit

\* a call that is not chunkwise wrote its one file after three or more elements
C10_Witness ==
    \E t \in Callers :
        /\ Sampled(t)
        /\ ens[t].write_to_file /\ ~ens[t].chunkwise
        /\ ens[t].k >= 3
        /\ Len(writer_log[t]) = 1
        /\ Len(writer_log[t][1].samples) >= 4

\* C11: a call with write_to_file false on an ensemble that passes the channel
\* check makes no writer call and returns to its caller the sample arrays of
\* number_of_samples entries and the new offset, whatever chunkwise is.
C11_NoWriteReturnsArrays ==
    \A t \in Callers :
        (Sampled(t) /\ ~ens[t].write_to_file)
        => /\ writer_log[t] = <<>>
           /\ ret[t].status = "returned"
           /\ Len(ret[t].analog_samples) = Analysis(t).number_of_samples
           /\ Len(ret[t].digital_samples) = Analysis(t).number_of_samples
           /\ ret[t].offset_bin = ens[t].offset_bin

\* the element and repetition at position k (from 1) when the entries of
\* block_list are taken in order, each with its repetitions 0..reps in order and
\* within a repetition the elements of the block in order
RECURSIVE OrderedElement(_, _)
OrderedElement(block_list, k) ==
    LET entry == Head(block_list)
        n == Len(entry.block.element_list)
        count == (entry.reps + 1) * n
    IN  IF k <= count
        THEN [block_element |-> entry.block.element_list[((k - 1) % n) + 1],
              rep_no |-> (k - 1) \div n]
        ELSE OrderedElement(Tail(block_list), k - count)

\* the samples of the element at position k of caller t's call, evaluated from
\* the time origin the call used for it
OrderedSamples(t, k) ==
    LET it == OrderedElement(ens[t].ensemble.block_list, k)
    IN  ElementSamples(it.block_element,
                       ElementLengthBins(it.block_element, it.rep_no, sample_rate),
                       ens[t].time_log[k].t0)

\* C12: the k-th chunk handed to the writer (chunkwise) or the k-th range of
\* the sample array filled (otherwise) holds the samples of the k-th element
\* in the order block_list entry, repetition, element; the filled ranges follow
\* one another from index 0 without gap or overlap and, when the loops end,
\* cover the number_of_samples entries of the array.
C12_EmissionOrder ==
    \A t \in Callers :
        Sampling(t)
        => IF ChunkedMode(ens[t])
           THEN /\ Len(writer_log[t]) = ens[t].k
                /\ \A k \in DOMAIN writer_log[t] :
                        writer_log[t][k].samples = OrderedSamples(t, k)
           ELSE LET filled == Flatten([k \in 1..ens[t].k |-> OrderedSamples(t, k)])
                IN  /\ ens[t].entry_ind = Len(filled)
                    /\ Len(filled) <= Len(ens[t].samples)
                    /\ SubSeq(ens[t].samples, 1, Len(filled)) = filled
                    /\ \A i \in (Len(filled) + 1)..Len(ens[t].samples) :
                            ens[t].samples[i] = Uninit
                    /\ ens[t].pc = "returned"
                       => Len(filled) = Analysis(t).number_of_samples

\* a call that is not chunkwise filled its array from a block of two elements
\* that is repeated, after another block
C12_Witness ==
    \E t \in Callers :
        /\ Sampled(t)
        /\ ~ChunkedMode(ens[t])
        /\ Len(ens[t].ensemble.block_list) = 2
        /\ ens[t].ensemble.block_list[2].reps = 1
        /\ Len(ens[t].ensemble.block_list[2].block.element_list) = 2
        /\ ens[t].k >= 5
        /\ ens[t].entry_ind >= 6

-----------------------------------------------------------------------------
(* Claims about one sequence call, checked under SpecSequence *)

\* caller t is in, or has left, a sample_pulse_sequence call that was not
\* rejected as busy
InSequenceCall(t) == seq[t].pc # "none"

\* that call has ended
SequenceCallEnded(t) == seq[t].pc = "returned"

\* C13: for a sequence with rotating_frame and n steps sample_pulse_sequence
\* makes n calls of sample_pulse_block_ensemble in the order of
\* ensemble_param_list; the first is given offset_bin 0 and every later one the
\* offset the call before it returned, also when a step fails the channel check.
C13_OffsetThreading ==
    \A t \in Callers :
        (InSequenceCall(t) /\ seq[t].sequence_obj.rotating_frame)
        => LET calls == seq[t].inner
               list == seq[t].sequence_obj.ensemble_param_list
           IN  /\ Len(calls) <= Len(list)
               /\ SequenceCallEnded(t) => Len(calls) = Len(list)
               /\ \A i \in DOMAIN calls :
                    /\ calls[i].ensemble_name = list[i].ensemble
                    /\ calls[i].offset_bin =
                         IF i = 1 THEN 0 ELSE calls[i - 1].offset_bin_return

\* the name an ensemble-sampling call of a sequence hands to the waveform
\* writer: the name of the stored ensemble followed by the name tag
Destination(call) ==
    saved_pulse_block_ensembles[call.ensemble_name].name \o call.name_tag

\* C14: for a sequence with rotating_frame the names handed to the waveform
\* writer for different occurrences differ from one another, and the
\* sampled_ensembles map the call leaves on the sequence has one entry per
\* occurrence of ensemble_param_list, also when an ensemble occurs several
\* times and when the name of one ensemble ends like a tag.
C14_OneEntryPerOccurrence ==
    \A t \in Callers :
        (InSequenceCall(t) /\ seq[t].sequence_obj.rotating_frame)
        => LET calls == seq[t].inner
               n == Len(seq[t].sequence_obj.ensemble_param_list)
               stored == saved_pulse_sequences[seq[t].sequence_name]
           IN  /\ \A i, j \in DOMAIN calls :
                    i # j => Destination(calls[i]) # Destination(calls[j])
               /\ SequenceCallEnded(t)
                  => /\ Len(calls) = n
                     /\ Cardinality(DOMAIN seq[t].sampled_ensembles) = n
                     /\ DOMAIN stored.sampled_ensembles
                          = {Destination(calls[i]) : i \in 1..n}

\* the ensemble names of an ensemble_param_list
NamesOf(list) == {list[i].ensemble : i \in DOMAIN list}

\* C15: for a sequence without rotating_frame every distinct ensemble name of
\* ensemble_param_list is sampled exactly once, with offset_bin 0 and an empty
\* name tag, however often the name occurs in the list.
C15_SampledOncePerName ==
    \A t \in Callers :
        (InSequenceCall(t) /\ ~seq[t].sequence_obj.rotating_frame)
        => LET calls == seq[t].inner
               list == seq[t].sequence_obj.ensemble_param_list
           IN  /\ \A i \in DOMAIN calls :
                    /\ calls[i].offset_bin = 0
                    /\ calls[i].name_tag = <<>>
                    /\ calls[i].ensemble_name \in NamesOf(list)
               /\ \A i, j \in DOMAIN calls :
                    i # j => calls[i].ensemble_name # calls[j].ensemble_name
               /\ SequenceCallEnded(t)
                  => {calls[i].ensemble_name : i \in DOMAIN calls} = NamesOf(list)

\* the positions of the sequence-writer calls in a writer log
SequenceWrites(log) == {i \in DOMAIN log : log[i].method = "sequence"}

\* C16: every sample_pulse_sequence call that is not rejected as busy calls the
\* sequence writer exactly once, after all its ensemble-sampling calls, with
\* one step descriptor per entry of ensemble_param_list in list order; the
\* descriptor of a step holds the files produced for the step's ensemble (of
\* the occurrence with rotating_frame, of the name without) and the step's
\* parameters.
C16_OneSequenceWrite ==
    \A t \in Callers :
        InSequenceCall(t)
        => LET log == writer_log[t]
               list == seq[t].sequence_obj.ensemble_param_list
               calls == seq[t].inner
               files == seq[t].sampled_ensembles
           IN  /\ Active(seq[t]) => SequenceWrites(log) = {}
               /\ SequenceCallEnded(t)
                  => /\ SequenceWrites(log) = {Len(log)}
                     /\ log[Len(log)].name = seq[t].sequence_name
                     /\ LET steps == log[Len(log)].sequence_param_dict_list
                        IN  /\ Len(steps) = Len(list)
                            /\ \A i \in DOMAIN list :
                                 /\ steps[i].param = list[i].param
                                 /\ steps[i].name =
                                      IF seq[t].sequence_obj.rotating_frame
                                      THEN files[Destination(calls[i])]
                                      ELSE files[list[i].ensemble]

\* caller t's sequence call ran through all its steps to its return statement
RanToCompletion(t) == SequenceCallEnded(t) /\ ret[t].status = "returned"

-----------------------------------------------------------------------------
(* Claims about the asset store, checked under SpecStore *)

\* the last save or delete call was save_ensemble, and it wrote the dict file
EnsembleSaved ==
    /\ saving.pc = "done"
    /\ saving.op = "save"
    /\ saving.kind = "ensemble"

\* two ensembles with equal block_list and equal metadata
SameEnsemble(a, b) ==
    /\ a.block_list = b.block_list
    /\ a.sample_rate = b.sample_rate
    /\ a.analog_channels = b.analog_channels
    /\ a.digital_channels = b.digital_channels
    /\ a.rotating_frame = b.rotating_frame

C19_CanonicalNeverPartial ==
    \A kind \in Kinds :
        disk[kind].canon.exists
        => /\ disk[kind].canon.complete
           /\ (saving.pc # "none" /\ saving.kind = kind)
              => disk[kind].canon \in {saving.prev, Dumped(saving.new)}

\* the process died while the temporary file was being written: the dict file
\* still holds the dict from before the save, next to a partial temporary file
C19_Witness ==
    /\ saving.pc = "crashed"
    /\ saving.at = "dump"
    /\ saving.op = "save"
    /\ disk[saving.kind].canon = saving.prev
    /\ saving.prev.exists
    /\ saving.prev # Dumped(saving.new)
    /\ disk[saving.kind].tmp.exists
    /\ ~disk[saving.kind].tmp.complete

\* C20: two reads of the dict of a kind that find the same set of candidate
\* files load the same one of them, and every read that finds more than one
\* candidate logs it.
C20_DeterministicPick ==
    \A a \in load_log :
        /\ a.reported
        /\ \A b \in load_log :
              (a.kind = b.kind /\ a.files = b.files) => a.picked = b.picked

-----------------------------------------------------------------------------
(* Claims about the loaders, checked under SpecLoad *)

\* the dict file of the directory is missing or cannot be deserialized
CanonUnusable(dir) == ~dir.canon.exists \/ ~dir.canon.complete

\* C21: a _get_*_from_file call that finds the dict file of its kind missing or
\* unreadable leaves the dict of the kind empty in memory and does not change
\* the dicts of the other two kinds.
C21_UnusableFileLoadsEmpty ==
    [][\A kind \in Kinds :
          invoked' = [by |-> "c1", op |-> "get", kind |-> kind]
          => /\ CanonUnusable(disk[kind]) => MapOf(kind)' = <<>>
             /\ \A other \in Kinds \ {kind} : MapOf(other)' = MapOf(other)]_vars

-----------------------------------------------------------------------------
(* Claims about deleting, checked under SpecAlias *)

\* the step is a delete_* call of a name that is stored
DeleteStep(kind, name) ==
    /\ invoked' = [by |-> "c1", op |-> "delete", kind |-> kind, name |-> name]
    /\ name \in DOMAIN MapOf(kind)

\* the object is stored under some name of the dict
StoredIn(map, obj) == \E x \in DOMAIN map : SameObject(map[x], obj)

\* C23: a delete_* call of a stored name removes the name from the dict of its
\* kind; afterwards the current_* pointer is not left on the object that was
\* stored under the name, unless the object is still stored under another
\* name; a current_* pointer on another object is left as it is; and once the
\* call has written the file, the dict file holds the new dict.
C23_DeleteClearsPointer ==
    [][/\ \A kind \in Kinds, name \in HeldNames :
             DeleteStep(kind, name)
             => LET deleted == MapOf(kind)[name]
                IN  /\ name \notin DOMAIN MapOf(kind)'
                    /\ (SameObject(current[kind], deleted)
                        /\ ~StoredIn(MapOf(kind)', deleted))
                       => current'[kind] = None
                    /\ (~SameObject(current[kind], deleted)
                        /\ StoredIn(MapOf(kind)', current[kind]))
                       => current'[kind] = current[kind]
       /\ \A kind \in Kinds :
             (saving'.pc = "done" /\ saving'.op = "delete" /\ saving'.kind = kind)
             => disk'[kind].canon = Dumped(MapOf(kind)')]_vars

-----------------------------------------------------------------------------
(* Claims about block references, checked under SpecEdit *)

\* the block_list of the ensemble of caller t's call with every block replaced
\* by the block stored under its name
ResolvedBlockList(t) ==
    [i \in DOMAIN ens[t].ensemble.block_list |->
        [block |-> saved_pulse_blocks[ens[t].ensemble.block_list[i].block.name],
         reps |-> ens[t].ensemble.block_list[i].reps]]

\* the samples of the element at position k of the resolved block_list
ResolvedSamples(t, k) ==
    LET it == OrderedElement(ResolvedBlockList(t), k)
    IN  ElementSamples(it.block_element,
                       ElementLengthBins(it.block_element, it.rep_no, sample_rate),
                       ens[t].time_log[k].t0)

\* C24: a sampling call that returns has sampled the elements of the blocks
\* that are stored, during the call, under the names of the blocks in the
\* block_list of the ensemble: as many elements as those blocks have, with
\* their samples.
C24_BlocksResolvedByLookup ==
    \A t \in Callers :
        (Sampled(t) /\ invoked = [by |-> t, op |-> "return_ensemble"])
        => /\ ens[t].k = CountRange(ResolvedBlockList(t))
           /\ IF ChunkedMode(ens[t])
              THEN \A k \in DOMAIN writer_log[t] :
                        writer_log[t][k].samples = ResolvedSamples(t, k)
              ELSE ens[t].samples
                     = Flatten([k \in 1..ens[t].k |-> ResolvedSamples(t, k)])

-----------------------------------------------------------------------------
\* generate_predefined_sequence: the registry look-up, the call of the
\* registered callable and the signal

\* the keys of generate_methods: the generate_* functions found in
\* logic/predefined_methods
GenerateMethods == { "rabi" }

\* the names the callers pass: a registered one and one that is not registered
PredefinedNames == GenerateMethods \cup { "unknown" }

\* the three asset maps, their dict files and the current_* pointers
Assets ==
    [maps |-> [kind \in Kinds |-> MapOf(kind)],
     files |-> [kind \in Kinds |-> disk[kind].canon],
     current |-> current]

\* generate_predefined_sequence up to the call of the callable: the look-up
\* generate_methods[predefined_sequence_name] stands before the try statement,
\* its KeyError reaches the caller
GeneratePredefinedSequence(t, predefined_sequence_name) ==
    /\ state = "idle"
    /\ gen.pc = "none"
    /\ ~Saving
    /\ IF predefined_sequence_name \in GenerateMethods
       THEN /\ gen' = [pc |-> "running", by |-> t, name |-> predefined_sequence_name,
                       before |-> Assets, saves |-> 0]
            /\ ret' = ret
       ELSE /\ gen' = [pc |-> "raised", by |-> t, name |-> predefined_sequence_name,
                       before |-> Assets, saves |-> 0]
            /\ ret' = [ret EXCEPT ![t] = [op |-> "generate_predefined_sequence",
                                          status |-> "raised", error |-> "KeyError"]]
    /\ invoked' = [by |-> t, op |-> "generate_predefined_sequence"]
    /\ UNCHANGED <<state, sample_rate, analog_channels, digital_channels,
                   saved_pulse_blocks, saved_pulse_block_ensembles,
                   saved_pulse_sequences, waveform_dir, sequence_dir, ens, seq,
                   writer_log, signal_log, removed, current, disk, saving, platform,
                   load_log, ops, activation_config, laser_channel, counter, optimizer>>

\* the callable has returned from one more save_block, save_ensemble or
\* save_sequence call
GenMethodSaved ==
    /\ gen.pc = "running"
    /\ saving.pc \in {"done", "failed"}
    /\ gen' = [gen EXCEPT !.saves = @ + 1]
    /\ saving' = NoFrame
    /\ invoked' = [by |-> gen.by, op |-> "gen_method_saved"]
    /\ UNCHANGED <<state, sample_rate, analog_channels, digital_channels,
                   saved_pulse_blocks, saved_pulse_block_ensembles,
                   saved_pulse_sequences, waveform_dir, sequence_dir, ens, seq, ret,
                   writer_log, signal_log, removed, current, disk, platform,
                   load_log, ops, activation_config, laser_channel, counter, optimizer>>

\* gen_method(*args) raises: the except clause logs the failure and returns
GenMethodRaises ==
    /\ gen.pc = "running"
    /\ saving.pc = "none"
    /\ gen' = [gen EXCEPT !.pc = "failed"]
    /\ ret' = [ret EXCEPT ![gen.by] = [op |-> "generate_predefined_sequence",
                                       status |-> "returned",
                                       error |-> "GenerationFailed"]]
    /\ invoked' = [by |-> gen.by, op |-> "gen_method_raises"]
    /\ UNCHANGED <<state, sample_rate, analog_channels, digital_channels,
                   saved_pulse_blocks, saved_pulse_block_ensembles,
                   saved_pulse_sequences, waveform_dir, sequence_dir, ens, seq,
                   writer_log, signal_log, removed, current, disk, saving, platform,
                   load_log, ops, activation_config, laser_channel, counter, optimizer>>

\* gen_method(*args) returns: sigPredefinedSequenceGenerated is emitted
GenMethodReturns ==
    /\ gen.pc = "running"
    /\ saving.pc = "none"
    /\ gen' = [gen EXCEPT !.pc = "returned"]
    /\ ret' = [ret EXCEPT ![gen.by] = [op |-> "generate_predefined_sequence",
                                       status |-> "returned", error |-> "none"]]
    /\ signal_log' = [signal_log EXCEPT ![gen.by] =
                        Append(@, <<"sigPredefinedSequenceGenerated", gen.name>>)]
    /\ invoked' = [by |-> gen.by, op |-> "gen_method_returns"]
    /\ UNCHANGED <<state, sample_rate, analog_channels, digital_channels,
                   saved_pulse_blocks, saved_pulse_block_ensembles,
                   saved_pulse_sequences, waveform_dir, sequence_dir, ens, seq,
                   writer_log, removed, current, disk, saving, platform,
                   load_log, ops, activation_config, laser_channel, counter, optimizer>>

\* an idle module whose store is empty or holds one asset of every kind, each
\* dict file holding its map
InitGenerate ==
    /\ state = "idle"
    /\ sample_rate = 1
    /\ analog_channels = InitAnalogChannels
    /\ digital_channels = InitDigitalChannels
    /\ \E present \in {{}, Kinds} :
          LET held(kind) ==
                  IF kind \in present
                  THEN Stored(<<>>, CHOOSE n \in AssetNames(kind) : TRUE,
                              CHOOSE o \in AssetObjects(kind) : TRUE)
                  ELSE <<>>
          IN  /\ saved_pulse_blocks = held("block")
              /\ saved_pulse_block_ensembles = held("ensemble")
              /\ saved_pulse_sequences = held("sequence")
              /\ disk = [kind \in Kinds |->
                            [canon |-> IF kind \in present THEN Dumped(held(kind))
                                       ELSE NoFile,
                             tmp |-> NoFile]]
    /\ waveform_dir = {}
    /\ sequence_dir = {}
    /\ ens = [t \in Callers |-> NoFrame]
    /\ seq = [t \in Callers |-> NoFrame]
    /\ ret = [t \in Callers |-> NoResult]
    /\ writer_log = [t \in Callers |-> <<>>]
    /\ signal_log = [t \in Callers |-> <<>>]
    /\ removed = [t \in Callers |-> {}]
    /\ invoked = [by |-> "none", op |-> "none"]
    /\ current = [kind \in Kinds |-> None]
    /\ saving = NoFrame
    /\ platform = "posix"
    /\ load_log = {}
    /\ ops = MaxOps
    /\ gen = NoFrame
    /\ counter = NoCounter
    /\ optimizer = NoOptimizer
    /\ activation_config = InitActivationConfig
    /\ laser_channel = Some("d_ch1")

NextGenerate ==
    \/ \E t \in Callers, predefined_sequence_name \in PredefinedNames :
            GeneratePredefinedSequence(t, predefined_sequence_name)
    \/ \E name \in AssetNames("block"), block \in AssetObjects("block") :
            gen.pc = "running" /\ SaveBlock(name, block)
    \/ \E name \in AssetNames("ensemble"), ensemble \in AssetObjects("ensemble") :
            gen.pc = "running" /\ SaveEnsemble(name, ensemble)
    \/ \E name \in AssetNames("sequence"), sequence \in AssetObjects("sequence") :
            gen.pc = "running" /\ SaveSequence(name, sequence)
    \/ OpenTmp
    \/ Dump
    \/ Rename
    \/ GenMethodSaved
    \/ GenMethodRaises
    \/ GenMethodReturns

SpecGenerate == InitGenerate /\ [][NextGenerate]_vars

\* the generate call of caller t has ended with a failure: the name was not
\* registered or the callable raised
GenerationFailed(t) ==
    /\ gen.pc \in {"raised", "failed"}
    /\ gen.by = t

\* C25: generate_predefined_sequence never lets an exception reach its caller:
\* for a name that is not registered as well as for a callable that raises, the
\* call returns normally with the failure reported and
\* sigPredefinedSequenceGenerated is not emitted
C25_GenerateNeverRaises ==
    \A t \in Callers :
        GenerationFailed(t)
        => /\ ret[t] = [op |-> "generate_predefined_sequence", status |-> "returned",
                        error |-> "GenerationFailed"]
           /\ Emitted(signal_log[t], "sigPredefinedSequenceGenerated") = 0

\* C26: when the callable fails after some save calls, the three asset maps,
\* their dict files and the current_* pointers are after the call what they
\* were before it
C26_FailedGenerationLeavesNoAssets ==
    (gen.pc = "failed" /\ gen.saves > 0) => Assets = gen.before

-----------------------------------------------------------------------------
\* set_settings: the laser channel is adjusted to the activation config, then
\* all settings are stored and sigSettingsUpdated is emitted

\* the channel names for which 'a_ch' in chnl and 'd_ch' in chnl hold
AnalogNames == { "a_ch1", "a_ch2" }
DigitalNames == { "d_ch1", "d_ch2", "d_ch3", "d_ch4" }

\* the activation configs and the laser channels the callers pass
ActivationConfigs ==
    { <<>>, <<"a_ch1">>, <<"a_ch1", "d_ch1">>, <<"d_ch2", "a_ch1", "d_ch1">>,
      <<"a_ch1", "a_ch2", "d_ch1", "d_ch2">> }

LaserChannels == { "a_ch1", "d_ch1", "d_ch2", "d_ch3" }

\* the first channel of the config with 'd_ch' in its name, None without one
FirstDigital(config) ==
    LET digital == { i \in DOMAIN config : config[i] \in DigitalNames }
    IN  IF digital = {} THEN None
        ELSE Some(config[CHOOSE i \in digital : \A j \in digital : i <= j])

\* the laser channel set_settings stores: the one passed when it is part of
\* the config, else the first digital channel of the config
AdjustedLaserChannel(config, channel) ==
    IF channel \in Range(config) THEN Some(channel) ELSE FirstDigital(config)

\* the number of channels of the config whose name is in names
CountChannels(config, names) ==
    Cardinality({ i \in DOMAIN config : config[i] \in names })

SetSettings(t, config, channel, rate) ==
    /\ state = "idle"
    /\ ops > 0
    /\ ops' = ops - 1
    /\ laser_channel' = AdjustedLaserChannel(config, channel)
    /\ activation_config' = config
    /\ analog_channels' = CountChannels(config, AnalogNames)
    /\ digital_channels' = CountChannels(config, DigitalNames)
    /\ sample_rate' = rate
    /\ signal_log' = [signal_log EXCEPT ![t] =
                        Append(@, <<"sigSettingsUpdated", config,
                                    AdjustedLaserChannel(config, channel), rate>>)]
    /\ ret' = [ret EXCEPT ![t] = [op |-> "set_settings", status |-> "returned",
                                  error |-> "none"]]
    /\ invoked' = [by |-> t, op |-> "set_settings", laser_channel |-> channel]
    /\ UNCHANGED <<state, saved_pulse_blocks, saved_pulse_block_ensembles,
                   saved_pulse_sequences, waveform_dir, sequence_dir, ens, seq,
                   writer_log, removed, current, disk, saving, platform, load_log,
                   gen, counter, optimizer>>

\* an idle module with the settings of __init__ and an empty store
InitSettings ==
    /\ state = "idle"
    /\ sample_rate = 1
    /\ analog_channels = InitAnalogChannels
    /\ digital_channels = InitDigitalChannels
    /\ activation_config = InitActivationConfig
    /\ laser_channel = Some("d_ch1")
    /\ saved_pulse_blocks = <<>>
    /\ saved_pulse_block_ensembles = <<>>
    /\ saved_pulse_sequences = <<>>
    /\ waveform_dir = {}
    /\ sequence_dir = {}
    /\ ens = [t \in Callers |-> NoFrame]
    /\ seq = [t \in Callers |-> NoFrame]
    /\ ret = [t \in Callers |-> NoResult]
    /\ writer_log = [t \in Callers |-> <<>>]
    /\ signal_log = [t \in Callers |-> <<>>]
    /\ removed = [t \in Callers |-> {}]
    /\ invoked = [by |-> "none", op |-> "none"]
    /\ current = [kind \in Kinds |-> None]
    /\ disk = [kind \in Kinds |-> [canon |-> NoFile, tmp |-> NoFile]]
    /\ saving = NoFrame
    /\ platform = "posix"
    /\ load_log = {}
    /\ gen = NoFrame
    /\ counter = NoCounter
    /\ optimizer = NoOptimizer
    /\ ops = MaxOps

NextSettings ==
    \E t \in Callers, config \in ActivationConfigs, channel \in LaserChannels,
       rate \in {1, 2} :
        SetSettings(t, config, channel, rate)

SpecSettings == InitSettings /\ [][NextSettings]_vars

\* C27: after every set_settings call whose activation_config has a digital
\* channel, the stored laser_channel is a digital channel of the stored
\* activation_config, whatever laser_channel was passed
C27_LaserChannelIsDigital ==
    (invoked.op = "set_settings" /\ Range(activation_config) \cap DigitalNames # {})
    => /\ laser_channel # None
       /\ laser_channel.value \in Range(activation_config) \cap DigitalNames

-----------------------------------------------------------------------------
\* the sampling methods called with a name that is not in the store

\* names that were sampled in an earlier run and are no longer stored
UnknownNames == { <<"x">>, <<"y">> }

\* sample_pulse_block_ensemble with a name that is not a key of
\* saved_pulse_block_ensembles: the module is locked and the old files are
\* deleted before the look-up raises KeyError
SampleUnknownEnsemble(t, ensemble_name, write_to_file) ==
    /\ Outside(t)
    /\ ensemble_name \notin DOMAIN saved_pulse_block_ensembles
    /\ LET filename_list == IF write_to_file THEN OldWaveformFiles(ensemble_name)
                            ELSE {}
       IN  /\ state' = IF state = "idle" THEN "locked" ELSE state
           /\ waveform_dir' = waveform_dir \ filename_list
           /\ removed' = [removed EXCEPT ![t] = filename_list]
    /\ ret' = [ret EXCEPT ![t] = [op |-> "sample_pulse_block_ensemble",
                                  status |-> "raised", error |-> "KeyError"]]
    /\ ens' = [ens EXCEPT ![t] = NoFrame]
    /\ seq' = [seq EXCEPT ![t] = NoFrame]
    /\ writer_log' = [writer_log EXCEPT ![t] = <<>>]
    /\ signal_log' = [signal_log EXCEPT ![t] = <<>>]
    /\ invoked' = [by |-> t, op |-> "sample_pulse_block_ensemble"]
    /\ UNCHANGED persistence
    /\ UNCHANGED <<settings, saved_pulse_block_ensembles, saved_pulse_sequences,
                   sequence_dir>>

\* sample_pulse_sequence with a name that is not a key of saved_pulse_sequences:
\* a busy module is reported; otherwise the module is locked and the old files
\* are deleted before the look-up raises KeyError
SampleUnknownSequence(t, sequence_name, write_to_file) ==
    /\ Outside(t)
    /\ sequence_name \notin DOMAIN saved_pulse_sequences
    /\ LET busy == SequenceBusy
           filename_list == IF write_to_file /\ ~busy
                            THEN OldSequenceFiles(sequence_name) ELSE {}
       IN  /\ state' = IF busy THEN state ELSE "locked"
           /\ sequence_dir' = sequence_dir \ filename_list
           /\ removed' = [removed EXCEPT ![t] = filename_list]
           /\ ret' = [ret EXCEPT ![t] =
                 IF busy
                 THEN [op |-> "sample_pulse_sequence", status |-> "returned",
                       error |-> "Busy"]
                 ELSE [op |-> "sample_pulse_sequence", status |-> "raised",
                       error |-> "KeyError"]]
    /\ ens' = [ens EXCEPT ![t] = NoFrame]
    /\ seq' = [seq EXCEPT ![t] = NoFrame]
    /\ writer_log' = [writer_log EXCEPT ![t] = <<>>]
    /\ signal_log' = [signal_log EXCEPT ![t] = <<>>]
    /\ invoked' = [by |-> t, op |-> "sample_pulse_sequence"]
    /\ UNCHANGED persistence
    /\ UNCHANGED <<settings, saved_pulse_block_ensembles, saved_pulse_sequences,
                   waveform_dir>>

\* files sampled in an earlier run for the names x and e
EarlierWaveforms == { <<"x", "_ch", "1.wfmx">>, <<"e", "_ch", "1.wfmx">> }
EarlierSequences == { <<"x", ".seq", "x">> }

\* the store holds the ensemble e and the sequence s over it; the directories
\* hold files of an earlier run
InitUnknown ==
    \E waveforms \in SUBSET EarlierWaveforms, sequences \in SUBSET EarlierSequences :
        /\ state = "idle"
        /\ sample_rate = 1
        /\ analog_channels = InitAnalogChannels
        /\ digital_channels = InitDigitalChannels
        /\ activation_config = InitActivationConfig
        /\ laser_channel = Some("d_ch1")
        /\ saved_pulse_blocks = <<>>
        /\ saved_pulse_block_ensembles = Single(<<"e">>, EnsembleE(TRUE))
        /\ saved_pulse_sequences =
                Single(<<"s">>, PulseSequence(<<"s">>, ParamList(<< <<"e">> >>), FALSE))
        /\ waveform_dir = waveforms
        /\ sequence_dir = sequences
        /\ ens = [t \in Callers |-> NoFrame]
        /\ seq = [t \in Callers |-> NoFrame]
        /\ ret = [t \in Callers |-> NoResult]
        /\ writer_log = [t \in Callers |-> <<>>]
        /\ signal_log = [t \in Callers |-> <<>>]
        /\ removed = [t \in Callers |-> {}]
        /\ invoked = [by |-> "none", op |-> "none"]
        /\ current = [kind \in Kinds |-> None]
        /\ disk = [kind \in Kinds |->
                     [canon |-> Dumped(MapOf(kind)), tmp |-> NoFile]]
        /\ saving = NoFrame
        /\ platform = "posix"
        /\ load_log = {}
        /\ ops = 0
        /\ gen = NoFrame
        /\ counter = NoCounter
        /\ optimizer = NoOptimizer

NextUnknown ==
    \/ \E t \in Callers, ensemble_name \in UnknownNames, write_to_file \in BOOLEAN :
            SampleUnknownEnsemble(t, ensemble_name, write_to_file)
    \/ \E t \in Callers, sequence_name \in UnknownNames, write_to_file \in BOOLEAN :
            SampleUnknownSequence(t, sequence_name, write_to_file)
    \/ \E write_to_file \in BOOLEAN, chunkwise \in BOOLEAN :
            SamplePulseBlockEnsemble("c1", <<"e">>, write_to_file, chunkwise, 0)
    \/ \E write_to_file \in BOOLEAN, chunkwise \in BOOLEAN :
            SamplePulseSequence("c1", <<"s">>, write_to_file, chunkwise)
    \/ SequenceSampleEnsemble("c1")
    \/ SampleElement("c1")
    \/ ReturnEnsemble("c1")
    \/ ReturnSequence("c1")

SpecUnknown == InitUnknown /\ [][NextUnknown]_vars

\* C28: sample_pulse_block_ensemble and sample_pulse_sequence called with a
\* name that is not in the store return a failure result without raising, make
\* no writer call and delete no previously sampled file
C28_UnknownNameResolvedLocally ==
    [][\A t \in Callers, name \in UnknownNames, write_to_file \in BOOLEAN :
            (\/ SampleUnknownEnsemble(t, name, write_to_file)
             \/ SampleUnknownSequence(t, name, write_to_file))
            => /\ ret'[t].status = "returned"
               /\ ret'[t].error # "none"
               /\ writer_log'[t] = <<>>
               /\ waveform_dir' = waveform_dir
               /\ sequence_dir' = sequence_dir]_vars

-----------------------------------------------------------------------------
\* CounterLogic: startCount and the start functions of the counting modes

MaxLength == 3

\* the counting modes startCount knows and one it does not know
CountingModes == { "continuous", "gated", "finite-gated" }
PassedModes == CountingModes \cup { "pulsed" }

\* the status a set-up call of the counting device returns
HardwareStatus == { 0, -1 }

\* _startCount_continuous on the module c: the device returns clock_status and
\* counter_status; clock_closed tells whether close_clock has closed the clock
StartCountContinuous(c, clock_status, counter_status, clock_closed) ==
    IF clock_status < 0
    THEN [c EXCEPT !.state = "idle", !.sigCounterUpdated = TRUE]
    ELSE IF counter_status < 0
    THEN [c EXCEPT !.state = "idle", !.clock = ~clock_closed,
                   !.sigCounterUpdated = TRUE]
    ELSE [c EXCEPT !.state = "locked", !.clock = TRUE, !.hw_counter = TRUE,
                   !.countdata = c.count_length,
                   !.scheduled = Append(@, "sigCountContinuousNext")]

\* _startCount_gated: pass
StartCountGated(c) == c

\* _startCount_finite_gated: the clock is not closed when the counter set-up
\* fails
StartCountFiniteGated(c, clock_status, counter_status) ==
    IF clock_status < 0
    THEN [c EXCEPT !.state = "idle", !.sigCounterUpdated = TRUE]
    ELSE IF counter_status < 0
    THEN [c EXCEPT !.state = "idle", !.clock = TRUE, !.sigCounterUpdated = TRUE]
    ELSE [c EXCEPT !.state = "locked", !.clock = TRUE, !.hw_counter = TRUE,
                   !.countdata = c.count_length,
                   !.already_counted_samples = 0,
                   !.scheduled = Append(@, "sigCountFiniteGatedNext")]

\* the state of the SequenceGeneratorLogic module
generator ==
    <<state, sample_rate, analog_channels, digital_channels, activation_config,
      laser_channel, saved_pulse_blocks, saved_pulse_block_ensembles,
      saved_pulse_sequences, waveform_dir, sequence_dir, ens, seq, ret, writer_log,
      signal_log, removed, current, disk, saving, platform, load_log, ops, gen>>

\* startCount: the value the start function returns is dropped, 0 is returned
\* for every known mode
StartCount(clock_status, counter_status, clock_closed) ==
    /\ counter.state = "idle"
    /\ LET c == [counter EXCEPT !.sigCounterUpdated = FALSE, !.finished = 0,
                                !.read = FALSE, !.stop_processed = FALSE]
           started ==
               CASE c.counting_mode = "continuous" ->
                        StartCountContinuous(c, clock_status, counter_status,
                                             clock_closed)
                 [] c.counting_mode = "gated" -> StartCountGated(c)
                 [] c.counting_mode = "finite-gated" ->
                        StartCountFiniteGated(c, clock_status, counter_status)
                 [] OTHER -> c
       IN  counter' = [started EXCEPT !.result =
                          IF c.counting_mode \in CountingModes THEN Some(0)
                          ELSE Some(-1)]
    /\ invoked' = [by |-> "c1", op |-> "startCount"]
    /\ UNCHANGED <<generator, optimizer>>

\* set_counting_mode
SetCountingMode(mode) ==
    /\ counter.state = "idle"
    /\ counter' = [counter EXCEPT !.counting_mode = mode]
    /\ invoked' = [by |-> "c1", op |-> "set_counting_mode"]
    /\ UNCHANGED <<generator, optimizer>>

\* set_count_length on an idle module: stop_counter finds nothing to stop
SetCountLength(length) ==
    /\ counter.state = "idle"
    /\ counter' = [counter EXCEPT !.count_length = length]
    /\ invoked' = [by |-> "c1", op |-> "set_count_length"]
    /\ UNCHANGED <<generator, optimizer>>

\* the CounterLogic module after on_activate, the counting device closed.
\* scheduled is the queue of the emitted loop signals whose slot has not run;
\* sigCounterUpdated, read and stop_processed tell what the last call did,
\* finished counts the sigGatedCounterFinished emissions since the last start
ActivatedCounter ==
    [state |-> "idle", counting_mode |-> "continuous", count_length |-> MaxLength,
     countdata |-> MaxLength, stopRequested |-> FALSE, clock |-> FALSE,
     hw_counter |-> FALSE, scheduled |-> <<>>, sigCounterUpdated |-> FALSE,
     result |-> None, already_counted_samples |-> 0, finished |-> 0,
     read |-> FALSE, stop_processed |-> FALSE]

InitCounter ==
    /\ state = "idle"
    /\ sample_rate = 1
    /\ analog_channels = InitAnalogChannels
    /\ digital_channels = InitDigitalChannels
    /\ activation_config = InitActivationConfig
    /\ laser_channel = Some("d_ch1")
    /\ saved_pulse_blocks = <<>>
    /\ saved_pulse_block_ensembles = <<>>
    /\ saved_pulse_sequences = <<>>
    /\ waveform_dir = {}
    /\ sequence_dir = {}
    /\ ens = [t \in Callers |-> NoFrame]
    /\ seq = [t \in Callers |-> NoFrame]
    /\ ret = [t \in Callers |-> NoResult]
    /\ writer_log = [t \in Callers |-> <<>>]
    /\ signal_log = [t \in Callers |-> <<>>]
    /\ removed = [t \in Callers |-> {}]
    /\ invoked = [by |-> "none", op |-> "none"]
    /\ current = [kind \in Kinds |-> None]
    /\ disk = [kind \in Kinds |-> [canon |-> NoFile, tmp |-> NoFile]]
    /\ saving = NoFrame
    /\ platform = "posix"
    /\ load_log = {}
    /\ ops = 0
    /\ gen = [pc |-> "none"]
    /\ counter = ActivatedCounter
    /\ optimizer = NoOptimizer

NextCounter ==
    \/ \E clock_status \in HardwareStatus, counter_status \in HardwareStatus,
          clock_closed \in BOOLEAN :
            StartCount(clock_status, counter_status, clock_closed)
    \/ \E mode \in PassedModes : SetCountingMode(mode)
    \/ \E length \in 1..MaxLength : SetCountLength(length)

SpecCounter == InitCounter /\ [][NextCounter]_vars

\* the counter is running: the module is locked, the device is set up and the
\* loop of the mode is scheduled
CounterRunning ==
    /\ counter.state = "locked"
    /\ counter.clock
    /\ counter.hw_counter
    /\ counter.scheduled # <<>>

\* C29: startCount returns -1 whenever counting could not be started and 0
\* only when the counter is running
C29_StartCountReportsFailure ==
    invoked.op = "startCount"
    => counter.result = IF CounterRunning THEN Some(0) ELSE Some(-1)

-----------------------------------------------------------------------------
\* the files of an earlier sampling and the first writer call of a call

\* the step appends to the writer calls of caller t the first waveform call of
\* its current call for the destination name
FirstWaveformCall(t, i) ==
    /\ i > Len(writer_log[t])
    /\ SubSeq(writer_log'[t], 1, Len(writer_log[t])) = writer_log[t]
    /\ writer_log'[t][i].method = "waveform"
    /\ \A j \in 1..(i - 1) :
            writer_log'[t][j].method = "waveform"
            => writer_log'[t][j].name # writer_log'[t][i].name

\* C30: when a sampling call with write_to_file makes its first writer call for
\* a destination name (the ensemble's name and the name tag), no file of an
\* earlier sampling that starts with that name and '_ch' is left in the
\* waveform directory, for standalone calls and for the tagged calls of a
\* sequence in the rotating frame
C30_OldFilesRemovedBeforeSampling ==
    [][\A t \in Callers : \A i \in DOMAIN writer_log'[t] :
            FirstWaveformCall(t, i)
            => OldWaveformFiles(writer_log'[t][i].name) = {}]_vars

-----------------------------------------------------------------------------
\* the lock of the generator over whole sampling calls

\* C31: every sample_pulse_block_ensemble or sample_pulse_sequence call that
\* takes the generator from idle to busy leaves it idle when the call ends, on
\* every exit path: whenever no sampling call is in progress the generator is
\* idle
C31_IdleWhenNoCallRuns ==
    (\A t \in Callers : Outside(t)) => state = "idle"

-----------------------------------------------------------------------------
\* the start-up load after a save that crashed

\* the start-up after a crash of a save of a kind whose dict file had been
\* written by an earlier save
LoadedAfterCrash ==
    /\ invoked = [by |-> "c1", op |-> "activate"]
    /\ saving.pc = "crashed"
    /\ saving.prev.exists
    /\ saving.prev.complete

\* C32: when a save crashes at any step after an earlier save of the kind has
\* completed, the next start-up load of the kind yields the dict held by the
\* file before the save or the dict being saved, never an empty or partial one
C32_LoadAfterCrashIsComplete ==
    LoadedAfterCrash
    => MapOf(saving.kind) \in {Deserialize(saving.prev.blob), saving.new}

-----------------------------------------------------------------------------
\* the channel counts and the activation config under set_settings,
\* load_ensemble and load_sequence

\* the object with the activation_config and the laser_channel it was created
\* for as metadata
WithChannels(obj, config, channel) ==
    [x \in (DOMAIN obj) \cup {"activation_config", "laser_channel"} |->
        IF x = "activation_config" THEN Some(config)
        ELSE IF x = "laser_channel" THEN Some(channel)
        ELSE obj[x]]

\* the stored ensembles: e was created for one analog and one digital channel,
\* m carries no settings
ConfiguredEnsembles ==
    [x \in {<<"e">>, <<"m">>} |->
        IF x = <<"e">>
        THEN WithChannels(Metadata(EnsembleE(TRUE), Some(2)), <<"a_ch1", "d_ch1">>,
                          "d_ch1")
        ELSE Metadata(EnsembleM, None)]

\* the stored sequence was created for two analog and two digital channels
ConfiguredSequences ==
    Single(<<"s">>,
           WithChannels(Metadata(PulseSequence(<<"s">>, ParamList(<< <<"e">> >>), FALSE),
                                 None),
                        <<"a_ch1", "a_ch2", "d_ch1", "d_ch2">>, "d_ch2"))

\* the module after on_activate: the channel counts are those of the
\* activation config
InitConfig ==
    /\ state = "idle"
    /\ sample_rate = 1
    /\ activation_config = InitActivationConfig
    /\ laser_channel = Some("d_ch1")
    /\ analog_channels = CountChannels(InitActivationConfig, AnalogNames)
    /\ digital_channels = CountChannels(InitActivationConfig, DigitalNames)
    /\ saved_pulse_blocks = <<>>
    /\ saved_pulse_block_ensembles = ConfiguredEnsembles
    /\ saved_pulse_sequences = ConfiguredSequences
    /\ waveform_dir = {}
    /\ sequence_dir = {}
    /\ ens = [t \in Callers |-> NoFrame]
    /\ seq = [t \in Callers |-> NoFrame]
    /\ ret = [t \in Callers |-> NoResult]
    /\ writer_log = [t \in Callers |-> <<>>]
    /\ signal_log = [t \in Callers |-> <<>>]
    /\ removed = [t \in Callers |-> {}]
    /\ invoked = [by |-> "none", op |-> "activate"]
    /\ current = [kind \in Kinds |-> None]
    /\ disk = [kind \in Kinds |-> [canon |-> Dumped(MapOf(kind)), tmp |-> NoFile]]
    /\ saving = [pc |-> "none"]
    /\ platform = "posix"
    /\ load_log = {}
    /\ ops = MaxOps
    /\ gen = [pc |-> "none"]
    /\ counter = [state |-> "deactivated"]
    /\ optimizer = NoOptimizer

NextConfig ==
    \/ \E config \in ActivationConfigs, channel \in LaserChannels :
            SetSettings("c1", config, channel, 1)
    \/ \E name \in (DOMAIN ConfiguredEnsembles) \cup UnknownNames : LoadEnsemble(name)
    \/ \E name \in (DOMAIN ConfiguredSequences) \cup UnknownNames : LoadSequence(name)

SpecConfig == InitConfig /\ [][NextConfig]_vars

\* C33: after activation, in every state reached by set_settings, load_ensemble
\* and load_sequence calls, analog_channels and digital_channels are the
\* numbers of 'a_ch' and 'd_ch' entries of the activation_config
C33_ChannelCountsFollowConfig ==
    /\ analog_channels = CountChannels(activation_config, AnalogNames)
    /\ digital_channels = CountChannels(activation_config, DigitalNames)

-----------------------------------------------------------------------------
\* the names of the stored objects and the keys they are stored under

\* C34: after any sequence of save_* and delete_* calls every asset stored in
\* a dict has a name attribute equal to the key it is stored under
C34_NameEqualsKey ==
    \A kind \in Kinds :
        \A name \in DOMAIN MapOf(kind) : MapOf(kind)[name].name = name

-----------------------------------------------------------------------------
\* CounterLogic: stopCount and the loop bodies, run by the event loop for each
\* queued sigCountContinuousNext and sigCountFiniteGatedNext

\* largest number of loop signals in the queue
MaxLoops == 2

\* stopCount
StopCount ==
    /\ counter.state \in {"idle", "locked"}
    /\ counter' = [counter EXCEPT !.stopRequested = TRUE]
    /\ invoked' = [by |-> "c1", op |-> "stopCount"]
    /\ UNCHANGED <<generator, optimizer>>

\* the module when the slot of the first queued signal starts to run
Dequeued(c) ==
    [c EXCEPT !.scheduled = Tail(@), !.sigCounterUpdated = FALSE, !.read = FALSE,
              !.stop_processed = FALSE]

\* the stop request processed by a loop body: close_counter and close_clock,
\* with closed telling whether they closed the device or raised; the finally
\* clause unlocks, clears stopRequested and emits sigCounterUpdated
StopProcessed(c, closed) ==
    [c EXCEPT !.hw_counter = IF closed THEN FALSE ELSE @,
              !.clock = IF closed THEN FALSE ELSE @,
              !.state = "idle",
              !.stopRequested = FALSE,
              !.sigCounterUpdated = TRUE,
              !.stop_processed = TRUE]

\* countLoopBody_continuous from the get_counter call on: a read that raises
\* requests a stop and emits sigCountContinuousNext before it raises again
ReadContinuous(c, read_ok) ==
    IF read_ok
    THEN [c EXCEPT !.read = TRUE, !.sigCounterUpdated = TRUE,
                   !.scheduled = Append(@, "sigCountContinuousNext")]
    ELSE [c EXCEPT !.read = TRUE, !.stopRequested = TRUE,
                   !.scheduled = Append(@, "sigCountContinuousNext")]

\* countLoopBody_continuous: after a stop request was processed without an
\* exception the method goes on with the read
CountLoopBodyContinuous(closed, read_ok) ==
    /\ counter.state \in {"idle", "locked"}
    /\ counter.scheduled # <<>>
    /\ Head(counter.scheduled) = "sigCountContinuousNext"
    /\ LET c == Dequeued(counter)
       IN  counter' = IF c.stopRequested
                      THEN IF closed
                           THEN ReadContinuous(StopProcessed(c, TRUE), read_ok)
                           ELSE StopProcessed(c, FALSE)
                      ELSE ReadContinuous(c, read_ok)
    /\ invoked' = [by |-> "c1", op |-> "countLoopBody_continuous"]
    /\ UNCHANGED <<generator, optimizer>>

\* countLoopBody_finite_gated from the get_counter call on: samples is
\* len(self.rawdata[0])
ReadFiniteGated(c, read_ok, samples) ==
    IF ~read_ok
    THEN [c EXCEPT !.read = TRUE, !.stopRequested = TRUE,
                   !.scheduled = Append(@, "sigCountFiniteGatedNext")]
    ELSE IF c.already_counted_samples + samples >= c.countdata
    THEN [c EXCEPT !.read = TRUE, !.already_counted_samples = 0,
                   !.stopRequested = TRUE, !.sigCounterUpdated = TRUE,
                   !.scheduled = Append(@, "sigCountFiniteGatedNext")]
    ELSE [c EXCEPT !.read = TRUE, !.already_counted_samples = @ + samples,
                   !.sigCounterUpdated = TRUE,
                   !.scheduled = Append(@, "sigCountFiniteGatedNext")]

\* mutant of FinishedGated: no return in the finally clause, the method goes
\* on with the read as countLoopBody_continuous does
FinishedGatedFallsThrough(c, closed) ==
    ReadFiniteGated([StopProcessed(c, closed) EXCEPT !.finished = @ + 1], TRUE, 1)

\* countLoopBody_finite_gated after a stop request: the finally clause emits
\* sigGatedCounterFinished and returns
FinishedGated(c, closed) ==
    [StopProcessed(c, closed) EXCEPT !.finished = @ + 1]

\* countLoopBody_finite_gated
CountLoopBodyFiniteGated(closed, read_ok, samples) ==
    /\ counter.state \in {"idle", "locked"}
    /\ counter.scheduled # <<>>
    /\ Head(counter.scheduled) = "sigCountFiniteGatedNext"
    /\ LET c == Dequeued(counter)
       IN  counter' = IF c.stopRequested
                      THEN FinishedGated(c, closed)
                      ELSE ReadFiniteGated(c, read_ok, samples)
    /\ invoked' = [by |-> "c1", op |-> "countLoopBody_finite_gated"]
    /\ UNCHANGED <<generator, optimizer>>

\* the module with its start, stop and loop methods; the device may fail in
\* every call
NextCounting ==
    \/ \E clock_status \in HardwareStatus, counter_status \in HardwareStatus,
          clock_closed \in BOOLEAN :
            /\ Len(counter.scheduled) < MaxLoops
            /\ StartCount(clock_status, counter_status, clock_closed)
    \/ \E mode \in PassedModes : SetCountingMode(mode)
    \/ StopCount
    \/ \E closed \in BOOLEAN, read_ok \in BOOLEAN :
            CountLoopBodyContinuous(closed, read_ok)
    \/ \E closed \in BOOLEAN, read_ok \in BOOLEAN, samples \in 1..MaxLength :
            CountLoopBodyFiniteGated(closed, read_ok, samples)

SpecCounting == InitCounter /\ [][NextCounting]_vars

\* C35: once countLoopBody_continuous has processed a stop request, that loop
\* makes no further hardware read and does not reschedule itself: the run of
\* the loop body that processed the stop request reads nothing from the device
\* and leaves no sigCountContinuousNext of its own in the queue
C35_StoppedLoopEnds ==
    [][(/\ invoked' = [by |-> "c1", op |-> "countLoopBody_continuous"]
        /\ counter'.stop_processed)
       => /\ ~counter'.read
          /\ counter'.scheduled = Tail(counter.scheduled)]_vars

-----------------------------------------------------------------------------
\* a finite-gated count on a device that reads and closes without error

InitGated ==
    /\ state = "idle"
    /\ sample_rate = 1
    /\ analog_channels = InitAnalogChannels
    /\ digital_channels = InitDigitalChannels
    /\ activation_config = InitActivationConfig
    /\ laser_channel = Some("d_ch1")
    /\ saved_pulse_blocks = <<>>
    /\ saved_pulse_block_ensembles = <<>>
    /\ saved_pulse_sequences = <<>>
    /\ waveform_dir = {}
    /\ sequence_dir = {}
    /\ ens = [t \in Callers |-> NoFrame]
    /\ seq = [t \in Callers |-> NoFrame]
    /\ ret = [t \in Callers |-> NoResult]
    /\ writer_log = [t \in Callers |-> <<>>]
    /\ signal_log = [t \in Callers |-> <<>>]
    /\ removed = [t \in Callers |-> {}]
    /\ invoked = [by |-> "none", op |-> "none"]
    /\ current = [kind \in Kinds |-> None]
    /\ disk = [kind \in Kinds |-> [canon |-> NoFile, tmp |-> NoFile]]
    /\ saving = [pc |-> "none"]
    /\ platform = "posix"
    /\ load_log = {}
    /\ ops = 0
    /\ gen = [pc |-> "none"]
    /\ optimizer = NoOptimizer
    /\ \E length \in 1..MaxLength :
          counter = [ActivatedCounter EXCEPT !.counting_mode = "finite-gated",
                                             !.count_length = length]

\* the event loop runs the slot of a queued sigCountFiniteGatedNext
GatedLoopRuns ==
    \E samples \in 1..MaxLength : CountLoopBodyFiniteGated(TRUE, TRUE, samples)

NextGated ==
    \/ \E clock_status \in HardwareStatus, counter_status \in HardwareStatus :
            StartCount(clock_status, counter_status, TRUE)
    \/ \E length \in 1..MaxLength : SetCountLength(length)
    \/ StopCount
    \/ GatedLoopRuns

\* every queued signal is delivered
SpecGated == InitGated /\ [][NextGated]_vars /\ WF_vars(GatedLoopRuns)

\* a finite-gated count is running
GatedRunning ==
    /\ counter.state = "locked"
    /\ counter.counting_mode = "finite-gated"

\* the count has ended: the device is closed, the module is idle,
\* stopRequested is cleared, sigGatedCounterFinished was emitted once and no
\* loop signal is queued
GatedTerminated ==
    /\ counter.state = "idle"
    /\ ~counter.stopRequested
    /\ ~counter.hw_counter
    /\ ~counter.clock
    /\ counter.finished = 1
    /\ counter.scheduled = <<>>

-----------------------------------------------------------------------------
\* OptimizerLogic: a refocus is a chain of slots, each run by the event loop
\* for a signal of a queued connection

\* number of lines of the xy optimization image (optimizer_XY_res)
MaxLines == 2

\* largest number of steps of an optimization sequence
MaxSequence == 2

RECURSIVE SequencesOver(_, _)
SequencesOver(S, n) ==
    IF n = 0 THEN {<<>>}
    ELSE SequencesOver(S, n - 1)
         \cup {Append(s, x) : s \in {q \in SequencesOver(S, n - 1) : Len(q) = n - 1},
                               x \in S}

\* the values of optimization_sequence: the valid ones and one with an
\* unknown step
OptimizationSequences == SequencesOver({"XY", "Z"}, MaxSequence) \cup {<<"A">>}

\* check_optimization_sequence
CheckOptimizationSequence(sequence) ==
    IF Range(sequence) \ {"XY", "Z"} # {} THEN <<"XY", "Z">> ELSE sequence

\* the module after on_activate; emitted holds the module state at each
\* signal_refocus_finished emission since the last start_refocus, scans counts
\* the image lines scanned since then, and stop_called tells whether
\* stop_refocus was called during the refocus
ActivatedOptimizer(sequence) ==
    [state |-> "idle", stopRequested |-> FALSE, optimization_sequence |-> sequence,
     optimization_step |-> 0, xy_scan_line_count |-> 0, scanner |-> FALSE,
     clock |-> FALSE, pending |-> <<>>, emitted |-> <<>>, scans |-> 0,
     stop_called |-> FALSE]

\* signal_refocus_finished.emit
RefocusFinishedEmitted(o) == [o EXCEPT !.emitted = Append(@, o.state)]

\* kill_scanner: the module is unlocked only when close_scanner and
\* close_scanner_clock both report no error
KillScanner(o, scanner_closed, clock_closed) ==
    IF ~scanner_closed THEN o
    ELSE IF ~clock_closed THEN [o EXCEPT !.scanner = FALSE]
    ELSE [o EXCEPT !.scanner = FALSE, !.clock = FALSE, !.state = "idle"]

\* finish_refocus
FinishRefocus(o, scanner_closed, clock_closed) ==
    RefocusFinishedEmitted(KillScanner(o, scanner_closed, clock_closed))

\* start_scanner
StartScanner(o, clock_status, scanner_status) ==
    IF clock_status < 0 THEN [o EXCEPT !.state = "idle"]
    ELSE IF scanner_status < 0 THEN [o EXCEPT !.state = "idle", !.clock = FALSE]
    ELSE [o EXCEPT !.state = "locked", !.clock = TRUE, !.scanner = TRUE]

\* start_refocus on an idle module
StartRefocus(clock_status, scanner_status) ==
    /\ optimizer.state = "idle"
    /\ LET o == [optimizer EXCEPT
                    !.xy_scan_line_count = 0,
                    !.optimization_step = 0,
                    !.optimization_sequence = CheckOptimizationSequence(@),
                    !.emitted = <<>>, !.scans = 0, !.stop_called = FALSE]
           started == StartScanner(o, clock_status, scanner_status)
       IN  optimizer' = IF clock_status < 0 \/ scanner_status < 0
                        THEN RefocusFinishedEmitted(started)
                        ELSE [started EXCEPT
                                 !.pending = Append(@, "do_next_optimization_step")]
    /\ invoked' = [by |-> "c1", op |-> "start_refocus"]
    /\ UNCHANGED <<generator, counter>>

\* stop_refocus
StopRefocus ==
    /\ optimizer.state \in {"idle", "locked"}
    /\ optimizer' = [optimizer EXCEPT !.stopRequested = TRUE,
                                      !.stop_called = @ \/ optimizer.state = "locked"]
    /\ invoked' = [by |-> "c1", op |-> "stop_refocus"]
    /\ UNCHANGED <<generator, counter>>

\* the event loop takes the first queued signal
Delivered(signal) ==
    /\ optimizer.state \in {"idle", "locked"}
    /\ optimizer.pending # <<>>
    /\ Head(optimizer.pending) = signal

\* _do_next_optimization_step; _signal_finished_all_optimization_steps is a
\* direct connection, finish_refocus runs inside the emit
DoNextOptimizationStep(scanner_closed, clock_closed) ==
    /\ Delivered("do_next_optimization_step")
    /\ LET o == [optimizer EXCEPT !.pending = Tail(@)]
       IN  optimizer' =
             IF o.optimization_step = Len(o.optimization_sequence)
             THEN FinishRefocus(o, scanner_closed, clock_closed)
             ELSE [o EXCEPT
                     !.optimization_step = @ + 1,
                     !.xy_scan_line_count = 0,
                     !.pending =
                        Append(@, IF o.optimization_sequence[o.optimization_step + 1]
                                     = "XY"
                                  THEN "scan_next_xy_line" ELSE "scan_z_line")]
    /\ invoked' = [by |-> "c1", op |-> "_do_next_optimization_step"]
    /\ UNCHANGED <<generator, counter>>

\* the stop branch of _refocus_xy_line: finish_refocus emits
\* signal_refocus_finished and the branch emits it again
RefocusStopped(o, scanner_closed, clock_closed) ==
    RefocusFinishedEmitted(
        FinishRefocus([o EXCEPT !.stopRequested = FALSE], scanner_closed, clock_closed))

\* _refocus_xy_line without a stop request: the move to the start of the first
\* line, the line and the return line; a scan that fails requests a stop and
\* emits the line signal again
XYLineScanned(o, move_ok, line_ok) ==
    IF o.xy_scan_line_count = 0 /\ ~move_ok
    THEN [o EXCEPT !.stopRequested = TRUE, !.pending = Append(@, "scan_next_xy_line")]
    ELSE IF ~line_ok
    THEN [o EXCEPT !.stopRequested = TRUE, !.scans = @ + 1,
                   !.pending = Append(@, "scan_next_xy_line")]
    ELSE [o EXCEPT !.scans = @ + 1,
                   !.xy_scan_line_count = @ + 1,
                   !.pending = Append(@, IF o.xy_scan_line_count + 1 < MaxLines
                                         THEN "scan_next_xy_line"
                                         ELSE "completed_xy_optimizer_scan")]

\* _refocus_xy_line
RefocusXYLine(move_ok, line_ok, scanner_closed, clock_closed) ==
    /\ Delivered("scan_next_xy_line")
    /\ LET o == [optimizer EXCEPT !.pending = Tail(@)]
       IN  optimizer' = IF o.stopRequested
                        THEN RefocusStopped(o, scanner_closed, clock_closed)
                        ELSE XYLineScanned(o, move_ok, line_ok)
    /\ invoked' = [by |-> "c1", op |-> "_refocus_xy_line"]
    /\ UNCHANGED <<generator, counter>>

\* _set_optimized_xy_from_fit
SetOptimizedXYFromFit ==
    /\ Delivered("completed_xy_optimizer_scan")
    /\ optimizer' = [optimizer EXCEPT
                        !.pending = Append(Tail(@), "do_next_optimization_step")]
    /\ invoked' = [by |-> "c1", op |-> "_set_optimized_xy_from_fit"]
    /\ UNCHANGED <<generator, counter>>

\* _scan_z_line with do_surface_subtraction off, the setting of __init__
ScanZLine(o, move_ok, line_ok) ==
    IF ~move_ok THEN [o EXCEPT !.stopRequested = TRUE]
    ELSE IF ~line_ok THEN [o EXCEPT !.stopRequested = TRUE, !.scans = @ + 1]
    ELSE [o EXCEPT !.scans = @ + 1]

\* do_z_optimization: stopRequested is not read, the next step is requested
\* whatever _scan_z_line did
DoZOptimization(move_ok, line_ok) ==
    /\ Delivered("scan_z_line")
    /\ optimizer' = [ScanZLine([optimizer EXCEPT !.pending = Tail(@)], move_ok, line_ok)
                        EXCEPT !.pending = Append(@, "do_next_optimization_step")]
    /\ invoked' = [by |-> "c1", op |-> "do_z_optimization"]
    /\ UNCHANGED <<generator, counter>>

InitOptimizer ==
    /\ state = "idle"
    /\ sample_rate = 1
    /\ analog_channels = InitAnalogChannels
    /\ digital_channels = InitDigitalChannels
    /\ activation_config = InitActivationConfig
    /\ laser_channel = Some("d_ch1")
    /\ saved_pulse_blocks = <<>>
    /\ saved_pulse_block_ensembles = <<>>
    /\ saved_pulse_sequences = <<>>
    /\ waveform_dir = {}
    /\ sequence_dir = {}
    /\ ens = [t \in Callers |-> NoFrame]
    /\ seq = [t \in Callers |-> NoFrame]
    /\ ret = [t \in Callers |-> NoResult]
    /\ writer_log = [t \in Callers |-> <<>>]
    /\ signal_log = [t \in Callers |-> <<>>]
    /\ removed = [t \in Callers |-> {}]
    /\ invoked = [by |-> "none", op |-> "none"]
    /\ current = [kind \in Kinds |-> None]
    /\ disk = [kind \in Kinds |-> [canon |-> NoFile, tmp |-> NoFile]]
    /\ saving = [pc |-> "none"]
    /\ platform = "posix"
    /\ load_log = {}
    /\ ops = 0
    /\ gen = [pc |-> "none"]
    /\ counter = NoCounter
    /\ \E sequence \in OptimizationSequences :
          optimizer = ActivatedOptimizer(sequence)

\* the event loop runs the slot of the first queued signal
RefocusRuns ==
    \/ \E scanner_closed \in BOOLEAN, clock_closed \in BOOLEAN :
            DoNextOptimizationStep(scanner_closed, clock_closed)
    \/ \E move_ok \in BOOLEAN, line_ok \in BOOLEAN,
          scanner_closed \in BOOLEAN, clock_closed \in BOOLEAN :
            RefocusXYLine(move_ok, line_ok, scanner_closed, clock_closed)
    \/ SetOptimizedXYFromFit
    \/ \E move_ok \in BOOLEAN, line_ok \in BOOLEAN : DoZOptimization(move_ok, line_ok)

NextOptimizer ==
    \/ \E clock_status \in HardwareStatus, scanner_status \in HardwareStatus :
            StartRefocus(clock_status, scanner_status)
    \/ StopRefocus
    \/ RefocusRuns

\* every queued signal is delivered
SpecOptimizer == InitOptimizer /\ [][NextOptimizer]_vars /\ WF_vars(RefocusRuns)

\* the module is loaded
Activated(module) == module.state \in {"idle", "locked"}

\* C37: in CounterLogic and in OptimizerLogic stopRequested is true only
\* while the module is locked, so that no stop request is left behind for the
\* run that is started next
C37_StopRequestedOnlyWhileLocked ==
    /\ Activated(counter) /\ counter.stopRequested => counter.state = "locked"
    /\ Activated(optimizer) /\ optimizer.stopRequested => optimizer.state = "locked"

\* C38: every start_refocus leads to exactly one signal_refocus_finished
\* emission, whether the refocus runs through all its steps, is stopped by
\* stop_refocus or by a scan error, or fails to start the scanner
C38_OneFinishedPerRefocus ==
    /\ [](Activated(optimizer) => Len(optimizer.emitted) <= 1)
    /\ (invoked.op = "start_refocus") ~> (Len(optimizer.emitted) = 1)

\* C39: whenever signal_refocus_finished is emitted the module is idle, also
\* when closing the scanner or its clock reports an error
C39_IdleWhenFinishedEmitted ==
    Activated(optimizer)
        => \A i \in DOMAIN optimizer.emitted : optimizer.emitted[i] = "idle"

\* C40: after stop_refocus was called during a refocus, for every valid
\* optimization sequence, no further line is scanned, the refocus finishes
\* and the module returns to idle
C40_StopRefocusStops ==
    /\ [][optimizer.stop_called /\ optimizer'.stop_called
            => optimizer'.scans = optimizer.scans]_vars
    /\ (Activated(optimizer) /\ optimizer.stop_called)
          ~> (optimizer.state = "idle" /\ optimizer.emitted # <<>>)

=============================================================================
